---------------------------- MODULE Spec2Model ----------------------------
(***************************************************************************)
(* A model of the command line parsing engine of getopt-rs / aopt:         *)
(* FwdPolicy::parse_impl (src/aopt/src/parser/policy_fwd.rs) driving the   *)
(* style classifier (src/aopt/src/parser/style.rs), the option process     *)
(* (src/aopt/src/proc/opt.rs) and the NOA process (src/aopt/src/proc/      *)
(* noa.rs).  Strings are sequences of one-character strings, an            *)
(* Option<T> is a sequence of length 0 (None) or 1 (Some).                 *)
(***************************************************************************)
EXTENDS Integers, Sequences, FiniteSets, TLC

VARIABLES
    reg,        \* the Set: sequence of declared options, uid = position
    args,       \* ctx.orig_args: the token list of this parse
    strict,     \* FwdPolicy.strict
    styles,     \* FwdPolicy.style_manager: the ordered enabled style list
    opts,       \* per uid: setted flag, stored values, raw values
    pc,         \* the stage parse_impl is in
    idx,        \* OptionScan: index of the current token (1-based)
    sidx,       \* OptionScan: 0 = fetch token, k = try styles[k], Len+1 = finish token
    matched,    \* local `matched` of the OptionScan loop body
    consume,    \* local `consume` of the OptionScan loop body
    noa,        \* noa_args
    pos,        \* PosScan: loop variable idx
    err,        \* the error parse_impl returned ([kind, what]), NoError while none
    stages,     \* history: the stages started, in order
    tried,      \* history: per token index, the styles whose guess was asked
    won,        \* history: per token index, the style that matched ("" if none)
    consumed,   \* history: token indices whose winning match consumed the next token
    skipped,    \* history: token indices skipped by iter.next()
    noaFrom,    \* history: per NOA position, the index of the token it came from
    procs,      \* history: the NOA processes run, [style, pos, arg]
    invoked,    \* history: handler invocations, [uid, stage, at, arg]
    ret,        \* what parse returned: << >> while it runs, then one record
    first,      \* << >>, or the outcome of the parse that ran before reset()
    keeper,     \* DelayParser.value_keeper: per uid, the values kept back
    nodelay,    \* the names of the options flagged "no delay"
    callbacks,  \* Invoker.callbacks: per uid, << >> or the one wrapped handler
    entry,      \* the HandlerEntry that borrows the Invoker, << >> if none
    chains,     \* history: per uid, the builder calls made on its entries
    calls,      \* history: the invocations made through the Invoker
    cands,      \* << >>, or the candidate list OptGuess::guess returned last
    parent,     \* << >>, or the parse that waits in a sub-command handler
    cote        \* << >>, or the cote Parser around the Set: ser, inv, its call

vars == << reg, args, strict, styles, opts, pc, idx, sidx, matched, consume,
           noa, pos, err, stages, tried, won, consumed, skipped, noaFrom, procs,
           invoked, ret, first, keeper, nodelay, callbacks, entry, chains, calls, cands, parent,
           cote >>

\* The state of the Invoker and the histories kept about it, the result
\* of the classifier when it is run on its own, and the parse that waits
\* for this one.
invs == << callbacks, entry, chains, calls, cands, parent, cote >>

-----------------------------------------------------------------------------
(* Option<T> and small helpers                                             *)

None == << >>
Some(x) == << x >>
IsSome(o) == Len(o) = 1
Get(o) == o[1]

Min(S) == CHOOSE x \in S : \A y \in S : x <= y

StartsWith(s, p) == Len(s) >= Len(p) /\ SubSeq(s, 1, Len(p)) = p

Drop(s, n) == SubSeq(s, n + 1, Len(s))

NoErr == "none"

NoError == [kind |-> NoErr, what |-> << >>]

-----------------------------------------------------------------------------
(* Raw value parsing (RawValParser of the option's value type)             *)

Digits == <<"0", "1", "2", "3", "4", "5", "6", "7", "8", "9">>

IsDigit(c) == \E d \in 1..10 : Digits[d] = c

DigitVal(c) == (CHOOSE d \in 1..10 : Digits[d] = c) - 1

RECURSIVE DigitsVal(_)
DigitsVal(s) ==
    IF Len(s) = 0 THEN 0
    ELSE 10 * DigitsVal(SubSeq(s, 1, Len(s) - 1)) + DigitVal(s[Len(s)])

IsUInt(s) == Len(s) > 0 /\ \A i \in 1..Len(s) : IsDigit(s[i])

IsInt(s) == IF Len(s) > 0 /\ s[1] = "-" THEN IsUInt(Drop(s, 1)) ELSE IsUInt(s)

IntVal(s) == IF s[1] = "-" THEN 0 - DigitsVal(Drop(s, 1)) ELSE DigitsVal(s)

BOOL_TRUE == <<"t", "r", "u", "e">>
BOOL_FALSE == <<"f", "a", "l", "s", "e">>

\* Whether raw value `raw` (an Option) converts to the value type `ty`.
RawOk(ty, raw) ==
    CASE ty = "b" -> IsSome(raw) /\ Get(raw) \in {BOOL_TRUE, BOOL_FALSE}
      [] ty = "i" -> IsSome(raw) /\ IsInt(Get(raw))
      [] ty = "u" -> IsSome(raw) /\ IsUInt(Get(raw))
      [] ty = "s" -> IsSome(raw)
      [] OTHER    -> TRUE

\* The typed value of a raw value that converts.
RawParse(ty, raw) ==
    CASE ty = "b" -> (Get(raw) = BOOL_TRUE)
      [] ty = "i" -> IntVal(Get(raw))
      [] ty = "u" -> DigitsVal(Get(raw))
      [] ty = "s" -> Get(raw)
      [] OTHER    -> TRUE

-----------------------------------------------------------------------------
(* Command line tokens (CLOpt) *)

\* The prefixes the Set's validator knows, longest first (default "--", "-").
Prefixes == << <<"-", "-">>, <<"-">> >>

\* The first known prefix the token starts with.
PrefixOf(s) ==
    LET pidx == {i \in 1..Len(Prefixes) : StartsWith(s, Prefixes[i])}
    IN  IF pidx = {} THEN None ELSE Some(Prefixes[Min(pidx)])

\* Split the rest of the token at its first "=" into name and value.
SplitValue(rest, prefix, dis) ==
    LET eqs == {i \in 1..Len(rest) : rest[i] = "="}
        nm  == IF eqs = {} THEN rest ELSE SubSeq(rest, 1, Min(eqs) - 1)
    IN  [prefix  |-> prefix,
         name    |-> IF Len(nm) = 0 THEN None ELSE Some(nm),
         value   |-> IF eqs = {} THEN None ELSE Some(Drop(rest, Min(eqs))),
         disable |-> dis]

\* A "/" right after the prefix is the disable mark.
SplitDisable(rest, prefix) ==
    IF IsSome(prefix) /\ StartsWith(rest, <<"/">>)
    THEN SplitValue(Drop(rest, 1), prefix, TRUE)
    ELSE SplitValue(rest, prefix, FALSE)

SplitPrefix(s, prefix) ==
    SplitDisable(IF IsSome(prefix) THEN Drop(s, Len(Get(prefix))) ELSE s, prefix)

\* opt.parse_arg(): split a token into prefix, disable mark, name and =value.
ParseArg(s) == SplitPrefix(s, PrefixOf(s))

\* set.check(name): the token carries a prefix the Set recognizes.
SetCheck(clopt) == IsSome(clopt.prefix)

-----------------------------------------------------------------------------
(* The Opt interface used by the matchers *)

MatStyle(opt, style) == style \in opt.styles

MatName(opt, name) == opt.ignname \/ (IsSome(name) /\ Get(name) = opt.name)

MatPrefix(opt, prefix) == opt.prefix = prefix

MatAlias(opt, prefix, name) == << prefix, name >> \in opt.alias

\* Index constraint: a half-open range lo..hi of NOA positions; None = any.
MatIdx(opt, index, total) ==
    \/ ~IsSome(opt.index)
    \/ Get(opt.index).lo <= index /\ index < Get(opt.index).hi

\* opt.check_val(arg, disable, (index, total)): the raw value converts to
\* the option's value type; only a boolean accepts the disable form, and a
\* boolean without a raw value (Combined) takes the synthesized value.
CheckVal(opt, arg, disable) ==
    /\ disable => opt.ty = "b"
    /\ IF opt.ty = "b" /\ ~IsSome(arg) THEN TRUE ELSE RawOk(opt.ty, arg)

\* The typed value the option's accessor parses from the raw value.
ParseVal(opt, arg) ==
    IF opt.ty = "b" /\ ~IsSome(arg) THEN TRUE ELSE RawParse(opt.ty, arg)

-----------------------------------------------------------------------------
(* Style classifier for options: OptGuess::guess *)

NewMatch(index, total, arg, style, disable, name, prefix, cons) ==
    [idx |-> index, total |-> total, arg |-> arg, style |-> style,
     disable |-> disable, name |-> name, prefix |-> prefix,
     consume |-> cons, uid |-> 0]

bool2str(value) == IF value THEN BOOL_TRUE ELSE BOOL_FALSE

\* index: position of the token, count: number of tokens, arg: the next
\* token (Option), clopt: the parsed token.  Each style returns its
\* candidate list; the empty list stands for Ok(None).
\* EqualWithValue taking the next token for the value after the "=".
GuessEqualWithNextArg(index, count, arg, clopt) ==
    IF IsSome(clopt.value)
    THEN << NewMatch(index, count, arg, "Argument",
                     clopt.disable, Get(clopt.name), Get(clopt.prefix), FALSE) >>
    ELSE << >>

GuessEqualWithValue(index, count, arg, clopt) ==
    IF IsSome(clopt.value)
    THEN << NewMatch(index, count, clopt.value, "Argument",
                     clopt.disable, Get(clopt.name), Get(clopt.prefix), FALSE) >>
    ELSE << >>

GuessArgument(index, count, arg, clopt) ==
    IF ~IsSome(clopt.value) /\ IsSome(arg)
    THEN << NewMatch(index, count, arg, "Argument",
                     clopt.disable, Get(clopt.name), Get(clopt.prefix), TRUE) >>
    ELSE << >>

GuessEmbeddedValue(index, count, arg, clopt) ==
    IF ~IsSome(clopt.value) /\ IsSome(clopt.name) /\ Len(Get(clopt.name)) >= 2
    THEN << NewMatch(index, count, Some(Drop(Get(clopt.name), 1)), "Argument",
                     clopt.disable, SubSeq(Get(clopt.name), 1, 1),
                     Get(clopt.prefix), FALSE) >>
    ELSE << >>

\* The Combined style with one candidate for the whole name.
GuessCombinedWhole(index, count, arg, clopt) ==
    IF ~IsSome(clopt.value) /\ IsSome(clopt.name) /\ Len(Get(clopt.name)) > 1
    THEN << NewMatch(index, count, None, "Combined", clopt.disable,
                     Get(clopt.name), Get(clopt.prefix), FALSE) >>
    ELSE << >>

GuessCombinedOption(index, count, arg, clopt) ==
    IF ~IsSome(clopt.value) /\ IsSome(clopt.name) /\ Len(Get(clopt.name)) > 1
    THEN [i \in 1..Len(Get(clopt.name)) |->
            NewMatch(index, count, None, "Combined", clopt.disable,
                     << Get(clopt.name)[i] >>, Get(clopt.prefix), FALSE)]
    ELSE << >>

\* The Boolean style ignoring the disable mark.
GuessBooleanTrue(index, count, arg, clopt) ==
    IF ~IsSome(clopt.value)
    THEN << NewMatch(index, count, Some(bool2str(TRUE)), "Boolean",
                     clopt.disable, Get(clopt.name), Get(clopt.prefix), FALSE) >>
    ELSE << >>

GuessBoolean(index, count, arg, clopt) ==
    IF ~IsSome(clopt.value)
    THEN << NewMatch(index, count, Some(bool2str(~clopt.disable)), "Boolean",
                     clopt.disable, Get(clopt.name), Get(clopt.prefix), FALSE) >>
    ELSE << >>

OptGuess(style, index, count, arg, clopt) ==
    CASE style = "EqualWithValue" -> GuessEqualWithValue(index, count, arg, clopt)
      [] style = "Argument"       -> GuessArgument(index, count, arg, clopt)
      [] style = "EmbeddedValue"  -> GuessEmbeddedValue(index, count, arg, clopt)
      [] style = "CombinedOption" -> GuessCombinedOption(index, count, arg, clopt)
      [] style = "Boolean"        -> GuessBoolean(index, count, arg, clopt)

-----------------------------------------------------------------------------
(* Option matcher: OptMatch and OptProcess *)

IsMat(mat) == mat.uid # 0

\* OptMatch::process returning an error when the value of a candidate
\* that takes the following token does not pass check_val.
OptMatchProcessFatal(mat, uid, os) ==
    LET opt == reg[uid]
        m0  == MatStyle(opt, mat.style)
        m1  == m0 /\ ( \/ (MatName(opt, Some(mat.name)) /\ MatPrefix(opt, Some(mat.prefix)))
                       \/ MatAlias(opt, mat.prefix, mat.name) )
    IN  IF ~m1
        THEN [err |-> NoErr, matched |-> FALSE, mat |-> mat, opts |-> os]
        ELSE IF CheckVal(opt, mat.arg, mat.disable)
        THEN [err |-> NoErr, matched |-> TRUE,
              mat |-> [mat EXCEPT !.uid = uid],
              opts |-> [os EXCEPT ![uid].setted = TRUE]]
        ELSE IF mat.consume
        THEN [err |-> "ValueConversionFailure", matched |-> FALSE, mat |-> mat, opts |-> os]
        ELSE [err |-> NoErr, matched |-> FALSE, mat |-> mat, opts |-> os]

\* OptMatch::process: style, then name and prefix or alias, then check_val;
\* on success set the option's setted flag and record its uid.
OptMatchProcess(mat, uid, os) ==
    LET opt == reg[uid]
        m0  == MatStyle(opt, mat.style)
        m1  == m0 /\ ( \/ (MatName(opt, Some(mat.name)) /\ MatPrefix(opt, Some(mat.prefix)))
                       \/ MatAlias(opt, mat.prefix, mat.name) )
    IN  IF ~m1
        THEN [err |-> NoErr, matched |-> FALSE, mat |-> mat, opts |-> os]
        ELSE IF mat.consume /\ ~IsSome(mat.arg)
        THEN [err |-> "MissingArgument", matched |-> FALSE, mat |-> mat, opts |-> os]
        ELSE IF CheckVal(opt, mat.arg, mat.disable)
        THEN [err |-> NoErr, matched |-> TRUE,
              mat |-> [mat EXCEPT !.uid = uid],
              opts |-> [os EXCEPT ![uid].setted = TRUE]]
        ELSE [err |-> NoErr, matched |-> FALSE, mat |-> mat, opts |-> os]

\* OptMatch::undo
OptMatchUndo(mat, os) ==
    [mat |-> [mat EXCEPT !.uid = 0], opts |-> [os EXCEPT ![mat.uid].setted = FALSE]]

NewProc(matches) == [matches |-> matches, consume_arg |-> FALSE]

\* is_mat with any() for all().
OptProcAnyMat(proc) == \E i \in 1..Len(proc.matches) : IsMat(proc.matches[i])

\* OptProcess::is_mat (also quit and status): every candidate is matched.
OptProcIsMat(proc) == \A i \in 1..Len(proc.matches) : IsMat(proc.matches[i])

RECURSIVE OptProcIter(_, _, _, _)

\* The outcome of offering the option to candidate i.
OptProcTry(proc, uid, os, i, r) ==
    IF r.err # NoErr
    THEN [err |-> r.err, index |-> 0, proc |-> proc, opts |-> os]
    ELSE IF r.matched
    THEN [err |-> NoErr, index |-> i,
          proc |-> [matches |-> [proc.matches EXCEPT ![i] = r.mat],
                    consume_arg |-> proc.consume_arg \/ r.mat.consume],
          opts |-> r.opts]
    ELSE OptProcIter(proc, uid, os, i + 1)

\* The candidate loop without `!mat.is_mat()`: a candidate that is bound
\* already is offered the next option too.
OptProcIterNoSkip(proc, uid, os, i) ==
    IF i > Len(proc.matches)
    THEN [err |-> NoErr, index |-> 0, proc |-> proc, opts |-> os]
    ELSE OptProcTry(proc, uid, os, i, OptMatchProcess(proc.matches[i], uid, os))

OptProcIter(proc, uid, os, i) ==
    IF i > Len(proc.matches)
    THEN [err |-> NoErr, index |-> 0, proc |-> proc, opts |-> os]
    ELSE IF IsMat(proc.matches[i])
    THEN OptProcIter(proc, uid, os, i + 1)
    ELSE OptProcTry(proc, uid, os, i, OptMatchProcess(proc.matches[i], uid, os))

\* OptProcess::process(uid, set): offer the option to the first candidate
\* that is not matched yet and matches it; index 0 stands for Ok(None).
OptProcessProcess(proc, uid, os) ==
    LET opt == reg[uid]
        style_check == \/ MatStyle(opt, "Argument")
                       \/ MatStyle(opt, "Boolean")
                       \/ MatStyle(opt, "Combined")
    IN  IF style_check
        THEN OptProcIter(proc, uid, os, 1)
        ELSE [err |-> NoErr, index |-> 0, proc |-> proc, opts |-> os]

RECURSIVE OptUndoIter(_, _, _)

OptUndoOne(proc, i, u) == OptUndoIter([proc EXCEPT !.matches[i] = u.mat], u.opts, i + 1)

OptUndoIter(proc, os, i) ==
    IF i > Len(proc.matches)
    THEN [proc |-> proc, opts |-> os]
    ELSE IF IsMat(proc.matches[i])
    THEN OptUndoOne(proc, i, OptMatchUndo(proc.matches[i], os))
    ELSE OptUndoIter(proc, os, i + 1)

\* An undo that leaves the matched options set.
OptProcessUndoKeep(proc, os) ==
    [proc |-> [proc EXCEPT !.matches = [i \in 1..Len(proc.matches) |->
                                           [proc.matches[i] EXCEPT !.uid = 0]]],
     opts |-> os]

\* OptProcess::undo
OptProcessUndo(proc, os) == OptUndoIter(proc, os, 1)

-----------------------------------------------------------------------------
(* Style classifier and matcher for non-option arguments *)

\* NOAGuess::guess: one candidate for the NOA position `index` (1-based
\* into the NOA list, 0 for Main); its name is the token at that position.
NOAGuess(style, noaArgs, index, count) ==
    [name      |-> IF index > 0 /\ index <= Len(noaArgs)
                   THEN Some(noaArgs[index]) ELSE None,
     args      |-> noaArgs,
     style     |-> style,
     noa_index |-> index,
     noa_total |-> count,
     uid       |-> 0,
     matched_index |-> 0]

\* NOAMatch::arg: args.get(idx.saturating_sub(1))
NOAMatchArg(mat) ==
    LET k == IF mat.noa_index = 0 THEN 1 ELSE mat.noa_index
    IN  IF k <= Len(mat.args) THEN Some(mat.args[k]) ELSE None

\* NOAMatch::process: style, name, (no) prefix and index, then check_val.
NOAMatchProcess(mat, uid, os) ==
    LET opt == reg[uid]
        m1  == /\ MatStyle(opt, mat.style)
               /\ MatName(opt, mat.name)
               /\ MatPrefix(opt, None)
               /\ MatIdx(opt, mat.noa_index, mat.noa_total)
    IN  IF m1 /\ CheckVal(opt, NOAMatchArg(mat), FALSE)
        THEN [matched |-> TRUE,
              mat  |-> [mat EXCEPT !.uid = uid, !.matched_index = mat.noa_index],
              opts |-> [os EXCEPT ![uid].setted = TRUE]]
        ELSE [matched |-> FALSE, mat |-> mat, opts |-> os]

\* NOAMatch::reset
NOAMatchReset(mat) == [mat EXCEPT !.uid = 0, !.matched_index = 0]

\* NOAMatch::undo
NOAMatchUndo(mat, os) ==
    [mat  |-> [mat EXCEPT !.uid = 0, !.matched_index = 0],
     opts |-> [os EXCEPT ![mat.uid].setted = FALSE]]

\* NOAProcess::quit: the NOA process never asks to stop.
NOAProcQuit(mat) == FALSE

NOAProcResult(r) ==
    [index |-> IF r.matched THEN 1 ELSE 0, mat |-> r.mat, opts |-> r.opts]

\* NOAProcess::process(uid, set): index 1 stands for Ok(Some(0)), 0 for Ok(None).
NOAProcessProcess(mat, uid, os) ==
    IF /\ \/ MatStyle(reg[uid], "Cmd")
          \/ MatStyle(reg[uid], "Main")
          \/ MatStyle(reg[uid], "Pos")
       /\ ~IsMat(mat)
    THEN NOAProcResult(NOAMatchProcess(mat, uid, os))
    ELSE [index |-> 0, mat |-> mat, opts |-> os]

-----------------------------------------------------------------------------
(* Invoker: the handler of a matched option *)

\* Store a parsed value by the option's Action.
StoreVal(o, action, val, rws) ==
    CASE action = "Set" -> [o EXCEPT !.vals = << val >>, !.raws = rws]
      [] action = "App" -> [o EXCEPT !.vals = Append(o.vals, val), !.raws = rws]
      [] action = "Cnt" ->
            [o EXCEPT !.vals = << (IF Len(o.vals) = 0 THEN 0 ELSE o.vals[1]) + 1 >>,
                      !.raws = rws]
      [] OTHER -> o

\* ValAccessor::store_all: parse the raw value and store it by the Action.
StoreAll(o, opt, raw) ==
    StoreVal(o, opt.action, ParseVal(opt, raw),
             IF IsSome(raw) THEN Append(o.raws, Get(raw)) ELSE o.raws)

\* The default handler storing the value and clearing the setted flag of
\* every other option.
FallbackUnset(os, uid, raw) ==
    [ret |-> TRUE, err |-> NoErr,
     opts |-> [u \in DOMAIN os |->
                  IF u = uid THEN StoreAll(os[uid], reg[uid], raw)
                  ELSE [os[u] EXCEPT !.setted = FALSE]]]

\* The default handler storing every value by Set, whatever the
\* option's Action.
FallbackAsSet(os, uid, raw) ==
    [ret |-> TRUE, err |-> NoErr,
     opts |-> [os EXCEPT ![uid] =
                  StoreVal(os[uid], "Set", ParseVal(reg[uid], raw),
                           IF IsSome(raw) THEN Append(os[uid].raws, Get(raw))
                           ELSE os[uid].raws)]]

\* Invoker::fallback: the default handler stores the raw value of the
\* context by the option's Action and reports success.
Fallback(os, uid, raw) ==
    [ret |-> TRUE, err |-> NoErr,
     opts |-> [os EXCEPT ![uid] = StoreAll(os[uid], reg[uid], raw)]]

\* A handler that yields None counting as a match.
InvokeNoneCounts(os, uid, raw) ==
    CASE reg[uid].handler = "none"  -> [ret |-> TRUE, err |-> NoErr, opts |-> os]
      [] reg[uid].handler = "raise" -> [ret |-> FALSE, err |-> "HandlerError", opts |-> os]
      [] OTHER -> Fallback(os, uid, raw)

\* Invoker::invoke / invoke_default: an option with a registered handler
\* runs it (a handler that yields None stores nothing and reports false, a
\* handler that returns Err(Error::raise_error(..)) hands the error on),
\* any other option runs the fallback.
Invoke(os, uid, raw) ==
    CASE reg[uid].handler = "none"  -> [ret |-> FALSE, err |-> NoErr, opts |-> os]
      [] reg[uid].handler = "raise" -> [ret |-> FALSE, err |-> "HandlerError", opts |-> os]
      [] OTHER -> Fallback(os, uid, raw)

\* A callback of the Invoker: the user's handler wrapped by wrap_handler
\* ("store": the handler, then the given store), wrap_handler_action
\* ("action": the handler, then the option's Action as the store) or
\* wrap_handler_fallback ("fallback").
Wrapped(wrap, handler, store) == [wrap |-> wrap, handler |-> handler, store |-> store]

\* The callbacks of a parser whose options were declared with the handlers
\* of r: an option with the default handler has no callback.
CallbacksOf(r) ==
    [u \in 1..Len(r) |->
        IF r[u].handler = "default" THEN << >>
        ELSE << Wrapped("action", r[u].handler, "action") >>]

-----------------------------------------------------------------------------
(* process_opt and process_non_opt: run one process over the Set *)

RECURSIVE OptUidLoop(_, _, _, _)

\* After process(uid): stop on an error or a complete process.
OptUidNext(r, uid, sv) ==
    IF r.err # NoErr \/ OptProcIsMat(r.proc)
    THEN [err |-> r.err, proc |-> r.proc, opts |-> r.opts, saved |-> sv]
    ELSE OptUidLoop(r.proc, r.opts, uid + 1, sv)

\* Remember the uid a candidate matched and the candidate's index.
OptUidSave(r, uid, saved) ==
    OptUidNext(r, uid, IF r.index # 0
                       THEN Append(saved, [uid |-> uid, index |-> r.index])
                       ELSE saved)

OptUidLoop(proc, os, uid, saved) ==
    IF uid > Len(reg)
    THEN [err |-> NoErr, proc |-> proc, opts |-> os, saved |-> saved]
    ELSE OptUidSave(OptProcessProcess(proc, uid, os), uid, saved)

OptUndone(u, log) == [err |-> NoErr, proc |-> u.proc, opts |-> u.opts, log |-> log]

RECURSIVE OptInvokeLoop(_, _, _, _, _)

\* A handler reporting false undoes the whole process; its error is
\* handed on with `?`.
OptInvoked(proc, saved, k, lg, r) ==
    IF r.err # NoErr
    THEN [err |-> r.err, proc |-> proc, opts |-> r.opts, log |-> lg]
    ELSE IF r.ret
    THEN OptInvokeLoop(proc, r.opts, saved, k + 1, lg)
    ELSE OptUndone(OptProcessUndo(proc, r.opts), lg)

OptInvokeOne(proc, os, saved, k, log, uid, raw) ==
    OptInvoked(proc, saved, k, Append(log, [uid |-> uid, arg |-> raw]),
               Invoke(os, uid, raw))

OptInvokeLoop(proc, os, saved, k, log) ==
    IF k > Len(saved)
    THEN [err |-> NoErr, proc |-> proc, opts |-> os, log |-> log]
    ELSE OptInvokeOne(proc, os, saved, k, log, saved[k].uid,
                      proc.matches[saved[k].index].arg)

ProcessOptEnd(r) ==
    IF r.err # NoErr
    THEN [err |-> r.err, proc |-> r.proc, opts |-> r.opts, log |-> << >>]
    ELSE IF OptProcIsMat(r.proc)
    THEN OptInvokeLoop(r.proc, r.opts, r.saved, 1, << >>)
    ELSE OptUndone(OptProcessUndo(r.proc, r.opts), << >>)

\* Try every uid of the Set in order until the process is complete; a
\* complete process invokes the handler of each matched option (a handler
\* reporting false undoes the process), an incomplete one is undone.
ProcessOpt(proc, os) == ProcessOptEnd(OptUidLoop(proc, os, 1, << >>))

RECURSIVE NOAUidLoop(_, _, _, _)

NOAQuit(u, uid, lg) ==
    IF NOAProcQuit(u.mat)
    THEN [err |-> NoErr, mat |-> u.mat, opts |-> u.opts, log |-> lg]
    ELSE NOAUidLoop(u.mat, u.opts, uid + 1, lg)

\* The candidate stays bound to the first option whose handler reported
\* true: no later option is offered the position.
NOAInvokedFirst(mat, uid, lg, h) ==
    IF h.err # NoErr
    THEN [err |-> h.err, mat |-> mat, opts |-> h.opts, log |-> lg]
    ELSE IF h.ret
    THEN NOAQuit([mat |-> mat, opts |-> h.opts], uid, lg)
    ELSE NOAQuit(NOAMatchUndo(mat, h.opts), uid, lg)

\* A handler reporting false undoes the match; its error is handed on
\* with `?`.  Either way the matcher is reset before the next uid ("reset
\* the matcher, we need match all the NonOpt"), so every option that
\* matches the position is offered it.
NOAInvoked(mat, uid, lg, h) ==
    IF h.err # NoErr
    THEN [err |-> h.err, mat |-> mat, opts |-> h.opts, log |-> lg]
    ELSE IF h.ret
    THEN NOAQuit([mat |-> NOAMatchReset(mat), opts |-> h.opts], uid, lg)
    ELSE NOAQuit(NOAMatchUndo(mat, h.opts), uid, lg)

NOAInvokeOne(mat, os, uid, log, raw) ==
    NOAInvoked(mat, uid, Append(log, [uid |-> uid, arg |-> raw]), Invoke(os, uid, raw))

NOAUidNext(r, uid, log) ==
    IF r.index = 0
    THEN NOAUidLoop(r.mat, r.opts, uid + 1, log)
    ELSE NOAInvokeOne(r.mat, r.opts, uid, log, NOAMatchArg(r.mat))

NOAUidLoop(mat, os, uid, log) ==
    IF uid > Len(reg)
    THEN [err |-> NoErr, mat |-> mat, opts |-> os, log |-> log]
    ELSE NOAUidNext(NOAProcessProcess(mat, uid, os), uid, log)

\* Offer the NOA candidate to every uid of the Set in order and invoke
\* the handler of the option it matches.
ProcessNonOpt(mat, os) == NOAUidLoop(mat, os, 1, << >>)

-----------------------------------------------------------------------------
(* SetChecker: the five checkpoints *)

Uids == 1..Len(reg)

IsOptStyle(opt) == opt.styles \cap {"Argument", "Boolean", "Combined"} # {}

\* With a Cmd declared, no force-required Pos may sit at position 1.
pre_check(os) ==
    ~ ( /\ \E c \in Uids : MatStyle(reg[c], "Cmd")
        /\ \E p \in Uids : /\ MatStyle(reg[p], "Pos")
                           /\ reg[p].force
                           /\ IsSome(reg[p].index)
                           /\ Get(reg[p].index).lo = 1 )

\* The name of the first force-required option of the given styles that
\* is not set (the option the checker's error names).
FirstUnset(os, stys) ==
    reg[Min({u \in Uids : /\ reg[u].styles \cap stys # {}
                          /\ reg[u].force
                          /\ ~os[u].setted})].name

opt_check(os) ==
    \A u \in Uids : (IsOptStyle(reg[u]) /\ reg[u].force) => os[u].setted

cmd_check(os) ==
    (\E u \in Uids : MatStyle(reg[u], "Cmd") /\ reg[u].force)
        => (\E u \in Uids : MatStyle(reg[u], "Cmd") /\ os[u].setted)

pos_check(os) ==
    \A u \in Uids : (MatStyle(reg[u], "Pos") /\ reg[u].force) => os[u].setted

post_check(os) ==
    \A u \in Uids : (MatStyle(reg[u], "Main") /\ reg[u].force) => os[u].setted

-----------------------------------------------------------------------------
(* Declared option sets and token alphabets the parses are drawn from *)

MaxOptArgs == 3
MaxNoaArgs == 4
MaxValArgs == 2

P1 == <<"-">>
P2 == <<"-", "-">>

NewOpt(name, prefix, alias, stys, index, force, action, ty, ignname, handler) ==
    [name |-> name, prefix |-> prefix, alias |-> alias, styles |-> stys,
     index |-> index, force |-> force, action |-> action, ty |-> ty,
     ignname |-> ignname, handler |-> handler]

\* name=b : a boolean option, Boolean and Combined capable
BoolOpt(prefix, name) ==
    NewOpt(name, Some(prefix), {}, {"Boolean", "Combined"}, None, FALSE,
           "Set", "b", FALSE, "default")

\* name=c : a command, bound to NOA position 1
CmdOpt(name, force) ==
    NewOpt(name, None, {}, {"Cmd"}, Some([lo |-> 1, hi |-> 2]), force,
           "Set", "c", FALSE, "default")

\* name=p@lo..hi : a positional of unsigned integers
PosOpt(name, lo, hi, force) ==
    NewOpt(name, None, {}, {"Pos"}, Some([lo |-> lo, hi |-> hi]), force,
           "App", "u", TRUE, "default")

\* name=m : the main option
MainOpt(name) ==
    NewOpt(name, None, {}, {"Main"}, None, FALSE, "Null", "m", TRUE, "default")

sCount == <<"c", "o", "u", "n", "t">>
sSet   == <<"s", "e", "t">>
sExtra == <<"e", "x", "t", "r", "a">>

\* -a=b -b=b -c=b --count=i! (alias -n)
RegOpts ==
    << BoolOpt(P1, <<"a">>), BoolOpt(P1, <<"b">>), BoolOpt(P1, <<"c">>),
       NewOpt(sCount, Some(P2), {<< P1, <<"n">> >>}, {"Argument"}, None, TRUE,
              "App", "i", FALSE, "default") >>

ToksOpts ==
    { <<"-", "a", "b", "c">>, <<"-", "a", "b", "d">>, P2 \o sCount,
      P2 \o sCount \o <<"=", "5">>, <<"5">>, <<"-", "n", "7">> }

\* set=c bpos=p@2..4 main=m -x=b
RegNoa ==
    << CmdOpt(sSet, FALSE), PosOpt(<<"b", "p", "o", "s">>, 2, 4, FALSE),
       MainOpt(<<"m", "a", "i", "n">>), BoolOpt(P1, <<"x">>) >>

ToksNoa == { sSet, <<"5">>, <<"6">>, sExtra, <<"-", "x">> }

\* set=c! cpos=p@2!
RegForce ==
    << CmdOpt(sSet, TRUE), PosOpt(<<"c", "p", "o", "s">>, 2, 3, TRUE) >>

ToksForce == { sSet, <<"5">>, <<"x">>, <<"-">> }

\* set=c apos=p@1! : rejected by pre_check
RegBad ==
    << CmdOpt(sSet, FALSE), PosOpt(<<"a", "p", "o", "s">>, 1, 2, TRUE) >>

ToksBad == { sSet }

\* --ab=s (its handler yields None) --a=b --b=b
RegNone ==
    << NewOpt(<<"a", "b">>, Some(P2), {}, {"Argument"}, None, FALSE,
              "App", "s", FALSE, "none"),
       BoolOpt(P2, <<"a">>), BoolOpt(P2, <<"b">>) >>

ToksNone == { <<"-", "-", "a", "b">>, <<"v">> }

\* --count=i (alias -n), and a value in its two spellings
RegVal ==
    << NewOpt(sCount, Some(P2), {<< P1, <<"n">> >>}, {"Argument"}, None, FALSE,
              "App", "i", FALSE, "default") >>

\* The values v the option is given: two integers, a word, a token that
\* is itself an option of the set.
Values == { <<"5">>, <<"-", "5">>, <<"x">>, <<"-", "n", "7">> }

OptEq(v) == P2 \o sCount \o <<"=">> \o v

ToksVal == { P2 \o sCount } \cup Values \cup { OptEq(v) : v \in Values }

\* -a=b --e=b boom=c : the handlers of --e and boom return an error that
\* is no failure
RegRaise ==
    << BoolOpt(P1, <<"a">>),
       NewOpt(<<"e">>, Some(P2), {}, {"Boolean"}, None, FALSE,
              "Set", "b", FALSE, "raise"),
       NewOpt(<<"b", "o", "o", "m">>, None, {}, {"Cmd"}, Some([lo |-> 1, hi |-> 2]),
              FALSE, "Set", "c", FALSE, "raise") >>

ToksRaise == { <<"-", "a">>, <<"-", "-", "e">>, <<"b", "o", "o", "m">> }

\* -v=b --w=b (alias -v) p=p@1..3 q=p@1..2 r=p@1..2 : two options answer
\* to -v, three positionals cover NOA position 1; the handler of r yields
\* None
RegTwin ==
    << BoolOpt(P1, <<"v">>),
       NewOpt(<<"w">>, Some(P2), {<< P1, <<"v">> >>}, {"Boolean", "Combined"},
              None, FALSE, "Set", "b", FALSE, "default"),
       PosOpt(<<"p">>, 1, 3, FALSE), PosOpt(<<"q">>, 1, 2, FALSE),
       NewOpt(<<"r">>, None, {}, {"Pos"}, Some([lo |-> 1, hi |-> 2]), FALSE,
              "App", "u", TRUE, "none") >>

ToksTwin == { <<"-", "v">>, <<"-", "v", "v">>, <<"5">> }

\* --count=i (alias -n, Append) --l=i (Set) -v=b (Count)
RegAct ==
    << NewOpt(sCount, Some(P2), {<< P1, <<"n">> >>}, {"Argument"}, None, FALSE,
              "App", "i", FALSE, "default"),
       NewOpt(<<"l">>, Some(P2), {}, {"Argument"}, None, FALSE,
              "Set", "i", FALSE, "default"),
       NewOpt(<<"v">>, Some(P1), {}, {"Boolean", "Combined"}, None, FALSE,
              "Cnt", "b", FALSE, "default") >>

ToksAct ==
    { P2 \o sCount \o <<"=", "5">>, <<"-", "n", "=", "6">>,
      <<"-", "-", "l", "=", "1">>, <<"-", "-", "l", "=", "2">>, <<"-", "v">> }

\* The spec's priority order, the order of the legacy parser, and the
\* list without the optional Embedded and Combined styles.
PriorityOrder ==
    <<"EqualWithValue", "Argument", "EmbeddedValue", "CombinedOption", "Boolean">>

LegacyOrder ==
    <<"EqualWithValue", "Argument", "Boolean", "CombinedOption", "EmbeddedValue">>

StyleLists ==
    { PriorityOrder, LegacyOrder, <<"EqualWithValue", "Argument", "Boolean">> }

Scenarios ==
    { [reg |-> RegOpts,  toks |-> ToksOpts,  max |-> MaxOptArgs, styles |-> StyleLists],
      [reg |-> RegNoa,   toks |-> ToksNoa,   max |-> MaxNoaArgs, styles |-> {PriorityOrder}],
      [reg |-> RegForce, toks |-> ToksForce, max |-> MaxOptArgs, styles |-> {PriorityOrder}],
      [reg |-> RegBad,   toks |-> ToksBad,   max |-> MaxOptArgs, styles |-> {PriorityOrder}],
      [reg |-> RegNone,  toks |-> ToksNone,  max |-> MaxOptArgs, styles |-> StyleLists],
      [reg |-> RegVal,   toks |-> ToksVal,   max |-> MaxValArgs, styles |-> StyleLists],
      [reg |-> RegRaise, toks |-> ToksRaise, max |-> MaxValArgs, styles |-> {PriorityOrder}],
      [reg |-> RegTwin,  toks |-> ToksTwin,  max |-> MaxOptArgs, styles |-> {PriorityOrder}],
      [reg |-> RegAct,   toks |-> ToksAct,   max |-> MaxOptArgs, styles |-> {PriorityOrder}] }

-----------------------------------------------------------------------------
(* FwdPolicy::parse_impl as a state machine *)

noa_cmd == 1
noa_main == 0
noa_pos(i) == i

Last(s) == s[Len(s)]

Init ==
    \E sc \in Scenarios : \E n \in 0..sc.max : \E a \in [1..n -> sc.toks] :
    \E st \in BOOLEAN : \E sl \in sc.styles :
        /\ reg = sc.reg
        /\ args = a
        /\ strict = st
        /\ styles = sl
        /\ opts = [u \in 1..Len(sc.reg) |-> [setted |-> FALSE, vals |-> << >>, raws |-> << >>]]
        /\ pc = "PreCheck"
        /\ idx = 1
        /\ sidx = 0
        /\ matched = FALSE
        /\ consume = FALSE
        /\ noa = << >>
        /\ pos = 1
        /\ err = NoError
        /\ stages = << "PreCheck" >>
        /\ tried = [i \in 1..n |-> << >>]
        /\ won = [i \in 1..n |-> ""]
        /\ consumed = {}
        /\ skipped = {}
        /\ noaFrom = << >>
        /\ procs = << >>
        /\ invoked = << >>
        /\ ret = << >>
        /\ first = << >>
        /\ keeper = [u \in 1..Len(sc.reg) |-> << >>]
        /\ nodelay = {}
        /\ callbacks = CallbacksOf(sc.reg)
        /\ entry = << >>
        /\ chains = [u \in 1..Len(sc.reg) |-> << >>]
        /\ calls = << >>
        /\ cands = << >>
        /\ parent = << >>
        /\ cote = << >>

\* `?` on a failed step: parse_impl returns the error, nothing else changes.
Fail(kind, what) ==
    /\ pc' = "Failed"
    /\ err' = [kind |-> kind, what |-> what]

\* Enter the next stage.
Goto(stage) ==
    /\ pc' = stage
    /\ stages' = Append(stages, stage)
    /\ err' = err

Stamp(log, at) ==
    [k \in 1..Len(log) |-> [uid |-> log[k].uid, arg |-> log[k].arg, stage |-> pc, at |-> at]]

\* self.checker().pre_check(set)?
PreCheckStep ==
    /\ pc = "PreCheck"
    /\ IF pre_check(opts)
       THEN Goto("OptionScan")
       ELSE Fail("PreCheckFailed", << >>) /\ UNCHANGED stages
    /\ UNCHANGED << ret, first, keeper, nodelay, invs, reg, args, strict, styles, opts, idx, sidx, matched, consume,
                    noa, pos, tried, won, consumed, skipped, noaFrom, procs, invoked >>

\* The token loop losing a token that is no option instead of pushing it.
NextTokenAsDropped(clopt) ==
    /\ IF IsSome(clopt.name) /\ SetCheck(clopt)
       THEN /\ sidx' = 1
            /\ UNCHANGED idx
       ELSE /\ idx' = idx + 1
            /\ sidx' = 0
    /\ UNCHANGED << noa, noaFrom >>
    /\ matched' = FALSE
    /\ consume' = FALSE

\* The head of one iteration of the token loop: fetch the token, reset
\* matched and consume, parse it; a token that is no option goes to NOA.
NextTokenAs(clopt) ==
    /\ IF IsSome(clopt.name) /\ SetCheck(clopt)
       THEN /\ sidx' = 1
            /\ UNCHANGED << noa, noaFrom, idx >>
       ELSE /\ noa' = Append(noa, args[idx])
            /\ noaFrom' = Append(noaFrom, idx)
            /\ idx' = idx + 1
            /\ sidx' = 0
    /\ matched' = FALSE
    /\ consume' = FALSE

NextToken ==
    /\ pc = "OptionScan" /\ sidx = 0 /\ idx <= Len(args)
    /\ NextTokenAs(ParseArg(args[idx]))
    /\ UNCHANGED << ret, first, keeper, nodelay, invs, reg, args, strict, styles, opts, pc, pos, err, stages, tried,
                    won, consumed, skipped, procs, invoked >>

\* The style loop without its `if matched { break; }`.
ProcessedNoBreak(style, r, m) ==
    /\ opts' = r.opts
    /\ invoked' = invoked \o Stamp(r.log, idx)
    /\ matched' = m
    /\ consume' = (consume \/ r.proc.consume_arg)
    /\ won' = IF m THEN [won EXCEPT ![idx] = style] ELSE won
    /\ consumed' = consumed
    /\ sidx' = sidx + 1
    /\ UNCHANGED << pc, err >>

\* process_opt called with invoke = false: the match is kept, the handlers
\* are left for later.
ProcessedNoInvoke(style, r, m) ==
    /\ opts' = [u \in DOMAIN opts |-> [opts[u] EXCEPT !.setted = r.opts[u].setted]]
    /\ invoked' = invoked
    /\ matched' = m
    /\ consume' = (consume \/ r.proc.consume_arg)
    /\ won' = IF m THEN [won EXCEPT ![idx] = style] ELSE won
    /\ consumed' = IF m /\ \E k \in 1..Len(r.proc.matches) :
                              IsMat(r.proc.matches[k]) /\ r.proc.matches[k].consume
                   THEN consumed \cup {idx} ELSE consumed
    /\ sidx' = IF m THEN Len(styles) + 1 ELSE sidx + 1
    /\ UNCHANGED << pc, err >>

\* The process ran: fold its result into matched and consume, break on a match.
Processed(style, r, m) ==
    /\ opts' = r.opts
    /\ invoked' = invoked \o Stamp(r.log, idx)
    /\ matched' = m
    /\ consume' = (consume \/ r.proc.consume_arg)
    /\ won' = IF m THEN [won EXCEPT ![idx] = style] ELSE won
    /\ consumed' = IF m /\ \E k \in 1..Len(r.proc.matches) :
                              IsMat(r.proc.matches[k]) /\ r.proc.matches[k].consume
                   THEN consumed \cup {idx} ELSE consumed
    /\ sidx' = IF m THEN Len(styles) + 1 ELSE sidx + 1
    /\ UNCHANGED << pc, err >>

\* process_opt(...)? on the candidates of the guess.
Guessed(style, r) ==
    IF r.err # NoErr
    THEN /\ Fail(r.err, << >>)
         /\ opts' = r.opts
         /\ UNCHANGED << sidx, matched, consume, won, consumed, invoked >>
    ELSE Processed(style, r, matched \/ OptProcIsMat(r.proc))

\* The candidates of the style about to be tried on the current token:
\* OptGuess::guess with the token's index, the token count, the following
\* token and the parsed token.
StyleGuess ==
    OptGuess(styles[sidx], idx - 1, Len(args),
             IF idx < Len(args) THEN Some(args[idx + 1]) ELSE None,
             ParseArg(args[idx]))

\* if let Some(mut proc) = guess(style, ...)?
GuessStyle(style, ms) ==
    IF ms = << >>
    THEN /\ sidx' = sidx + 1
         /\ UNCHANGED << opts, pc, err, matched, consume, won, consumed, invoked >>
    ELSE Guessed(style, ProcessOpt(NewProc(ms), opts))

\* One iteration of `for style in opt_styles.iter()`: guess, process_opt,
\* fold the process result into matched and consume, break on a match.
TryStyle ==
    /\ pc = "OptionScan" /\ sidx >= 1 /\ sidx <= Len(styles)
    /\ tried' = [tried EXCEPT ![idx] = Append(@, styles[sidx])]
    /\ GuessStyle(styles[sidx],
                  OptGuess(styles[sidx], idx - 1, Len(args),
                           IF idx < Len(args) THEN Some(args[idx + 1]) ELSE None,
                           ParseArg(args[idx])))
    /\ UNCHANGED << ret, first, keeper, nodelay, invs, reg, args, strict, styles, idx, noa, pos, stages, skipped,
                    noaFrom, procs >>

\* The tail of the iteration without the strict check.
EndTokenNoStrict ==
    /\ pc = "OptionScan" /\ sidx = Len(styles) + 1
    /\ UNCHANGED << pc, err >>
    /\ sidx' = 0
    /\ IF matched /\ consume
       THEN /\ idx' = idx + 2
            /\ skipped' = skipped \cup ({idx + 1} \cap (1..Len(args)))
            /\ UNCHANGED << noa, noaFrom >>
       ELSE IF ~matched
       THEN /\ noa' = Append(noa, args[idx])
            /\ noaFrom' = Append(noaFrom, idx)
            /\ idx' = idx + 1
            /\ UNCHANGED skipped
       ELSE /\ idx' = idx + 1
            /\ UNCHANGED << noa, noaFrom, skipped >>
    /\ UNCHANGED << ret, first, keeper, nodelay, invs, reg, args, strict, styles, opts, matched, consume, pos, stages,
                    tried, won, consumed, procs, invoked >>

\* The tail of the iteration rolling the set back when the strict check
\* fails.
EndTokenRollback ==
    /\ pc = "OptionScan" /\ sidx = Len(styles) + 1
    /\ IF ~matched /\ strict
       THEN /\ Fail("OptionNotFound", Get(ParseArg(args[idx]).name))
            /\ opts' = [u \in DOMAIN opts |->
                           [setted |-> FALSE, vals |-> << >>, raws |-> << >>]]
            /\ UNCHANGED << idx, sidx, noa, noaFrom, skipped >>
       ELSE /\ UNCHANGED << pc, err, opts >>
            /\ sidx' = 0
            /\ IF matched /\ consume
               THEN /\ idx' = idx + 2
                    /\ skipped' = skipped \cup ({idx + 1} \cap (1..Len(args)))
                    /\ UNCHANGED << noa, noaFrom >>
               ELSE IF ~matched
               THEN /\ noa' = Append(noa, args[idx])
                    /\ noaFrom' = Append(noaFrom, idx)
                    /\ idx' = idx + 1
                    /\ UNCHANGED skipped
               ELSE /\ idx' = idx + 1
                    /\ UNCHANGED << noa, noaFrom, skipped >>
    /\ UNCHANGED << ret, first, keeper, nodelay, invs, reg, args, strict, styles, matched,
                    consume, pos, stages, tried, won, consumed, procs, invoked >>

\* The tail of an iteration that leaves the iterator where it is, so that
\* the loop fetches the same token again.
EndTokenAgain ==
    /\ pc = "OptionScan" /\ sidx = Len(styles) + 1
    /\ IF ~matched /\ strict
       THEN /\ Fail("OptionNotFound", Get(ParseArg(args[idx]).name))
            /\ UNCHANGED << idx, sidx, noa, noaFrom, skipped >>
       ELSE /\ UNCHANGED << pc, err >>
            /\ sidx' = 0
            /\ IF matched
               THEN /\ idx' = idx + 1
                    /\ UNCHANGED << noa, noaFrom, skipped >>
               ELSE /\ noa' = Append(noa, args[idx])
                    /\ noaFrom' = Append(noaFrom, idx)
                    /\ idx' = idx
                    /\ UNCHANGED skipped
    /\ UNCHANGED << ret, first, keeper, nodelay, invs, reg, args, strict, styles, opts, matched, consume, pos, stages,
                    tried, won, consumed, procs, invoked >>

\* The tail of the iteration: the strict check, then skip the consumed
\* token or push the unmatched token to NOA.
EndToken ==
    /\ pc = "OptionScan" /\ sidx = Len(styles) + 1
    /\ IF ~matched /\ strict
       THEN /\ Fail("OptionNotFound", Get(ParseArg(args[idx]).name))
            /\ UNCHANGED << idx, sidx, noa, noaFrom, skipped >>
       ELSE /\ UNCHANGED << pc, err >>
            /\ sidx' = 0
            /\ IF matched /\ consume
               THEN /\ idx' = idx + 2
                    /\ skipped' = skipped \cup ({idx + 1} \cap (1..Len(args)))
                    /\ UNCHANGED << noa, noaFrom >>
               ELSE IF ~matched
               THEN /\ noa' = Append(noa, args[idx])
                    /\ noaFrom' = Append(noaFrom, idx)
                    /\ idx' = idx + 1
                    /\ UNCHANGED skipped
               ELSE /\ idx' = idx + 1
                    /\ UNCHANGED << noa, noaFrom, skipped >>
    /\ UNCHANGED << ret, first, keeper, nodelay, invs, reg, args, strict, styles, opts, matched, consume, pos, stages,
                    tried, won, consumed, procs, invoked >>

\* The token iterator is exhausted.
ScanDone ==
    /\ pc = "OptionScan" /\ sidx = 0 /\ idx > Len(args)
    /\ Goto("OptCheck")
    /\ UNCHANGED << ret, first, keeper, nodelay, invs, reg, args, strict, styles, opts, idx, sidx, matched, consume,
                    noa, pos, tried, won, consumed, skipped, noaFrom, procs, invoked >>

\* opt_check whose result is dropped instead of returned with `?`.
OptCheckStepUnchecked ==
    /\ pc = "OptCheck"
    /\ Goto("CmdScan")
    /\ UNCHANGED << ret, first, keeper, nodelay, invs, reg, args, strict, styles, opts, idx, sidx, matched, consume,
                    noa, pos, tried, won, consumed, skipped, noaFrom, procs, invoked >>

\* self.checker().opt_check(set)?
OptCheckStep ==
    /\ pc = "OptCheck"
    /\ IF opt_check(opts)
       THEN Goto("CmdScan")
       ELSE /\ Fail("RequiredOptionUnset",
                    FirstUnset(opts, {"Argument", "Boolean", "Combined"}))
            /\ UNCHANGED stages
    /\ UNCHANGED << ret, first, keeper, nodelay, invs, reg, args, strict, styles, opts, idx, sidx, matched, consume,
                    noa, pos, tried, won, consumed, skipped, noaFrom, procs, invoked >>

\* process_non_opt(...)? : an error ends the parse, otherwise the parse
\* goes on to the stage `next` (or stays in its loop when next is "").
NoaProcessed(style, p, mat, r, next) ==
    /\ opts' = r.opts
    /\ procs' = Append(procs, [style |-> style, pos |-> p, arg |-> NOAMatchArg(mat)])
    /\ invoked' = invoked \o Stamp(r.log, p)
    /\ IF r.err # NoErr
       THEN Fail(r.err, << >>) /\ UNCHANGED stages
       ELSE IF next = ""
       THEN UNCHANGED << pc, err, stages >>
       ELSE Goto(next)

NoaGuessed(style, p, mat, next) ==
    NoaProcessed(style, p, mat, ProcessNonOpt(mat, opts), next)

\* One NOA process: guess the candidate of `style` at position p, run it.
RunNoa(style, p, next) ==
    NoaGuessed(style, p, NOAGuess(style, noa, p, Len(noa)), next)

\* The Cmd process run without the `if noa_len > 0` around it.
CmdScanStepAlways ==
    /\ pc = "CmdScan"
    /\ RunNoa("Cmd", noa_cmd, "CmdCheck")
    /\ UNCHANGED << ret, first, keeper, nodelay, invs, reg, args, strict, styles, idx, sidx, matched, consume,
                    noa, pos, tried, won, consumed, skipped, noaFrom >>

\* if noa_len > 0 { the Cmd process at noa_cmd() }
CmdScanStep ==
    /\ pc = "CmdScan"
    /\ IF Len(noa) > 0
       THEN RunNoa("Cmd", noa_cmd, "CmdCheck")
       ELSE UNCHANGED << opts, procs, invoked >> /\ Goto("CmdCheck")
    /\ UNCHANGED << ret, first, keeper, nodelay, invs, reg, args, strict, styles, idx, sidx, matched, consume,
                    noa, pos, tried, won, consumed, skipped, noaFrom >>

\* cmd_check whose result is dropped instead of returned with `?`.
CmdCheckStepUnchecked ==
    /\ pc = "CmdCheck"
    /\ Goto("PosScan") /\ pos' = 1
    /\ UNCHANGED << ret, first, keeper, nodelay, invs, reg, args, strict, styles, opts, idx, sidx, matched, consume,
                    noa, tried, won, consumed, skipped, noaFrom, procs, invoked >>

\* self.checker().cmd_check(set)? (in either branch of noa_len > 0)
CmdCheckStep ==
    /\ pc = "CmdCheck"
    /\ IF cmd_check(opts)
       THEN Goto("PosScan") /\ pos' = 1
       ELSE Fail("RequiredCmdUnset", << >>) /\ UNCHANGED << stages, pos >>
    /\ UNCHANGED << ret, first, keeper, nodelay, invs, reg, args, strict, styles, opts, idx, sidx, matched, consume,
                    noa, tried, won, consumed, skipped, noaFrom, procs, invoked >>

\* The range of `for idx in 1..noa_len`.
PosRange(noa_len) == 1..(noa_len - 1)

\* One iteration of the Pos loop.
PosScanStep ==
    /\ pc = "PosScan"
    /\ Len(noa) > 0 /\ pos \in PosRange(Len(noa))
    /\ RunNoa("Pos", noa_pos(pos), "")
    /\ pos' = pos + 1
    /\ UNCHANGED << ret, first, keeper, nodelay, invs, reg, args, strict, styles, idx, sidx, matched, consume,
                    noa, tried, won, consumed, skipped, noaFrom >>

\* The Pos loop is over (or noa_len = 0).
PosScanDone ==
    /\ pc = "PosScan"
    /\ ~(Len(noa) > 0 /\ pos \in PosRange(Len(noa)))
    /\ Goto("PosCheck")
    /\ UNCHANGED << ret, first, keeper, nodelay, invs, reg, args, strict, styles, opts, idx, sidx, matched, consume,
                    noa, pos, tried, won, consumed, skipped, noaFrom, procs, invoked >>

\* pos_check marking the options it reported as set.
PosCheckStepMarking ==
    /\ pc = "PosCheck"
    /\ IF pos_check(opts)
       THEN Goto("MainScan") /\ UNCHANGED opts
       ELSE /\ Fail("RequiredPosUnset", FirstUnset(opts, {"Pos"}))
            /\ opts' = [u \in DOMAIN opts |-> [opts[u] EXCEPT !.setted = TRUE]]
            /\ UNCHANGED stages
    /\ UNCHANGED << ret, first, keeper, nodelay, invs, reg, args, strict, styles, idx, sidx,
                    matched, consume, noa, pos, tried, won, consumed, skipped,
                    noaFrom, procs, invoked >>

\* self.checker().pos_check(set)?
PosCheckStep ==
    /\ pc = "PosCheck"
    /\ IF pos_check(opts)
       THEN Goto("MainScan")
       ELSE Fail("RequiredPosUnset", FirstUnset(opts, {"Pos"})) /\ UNCHANGED stages
    /\ UNCHANGED << ret, first, keeper, nodelay, invs, reg, args, strict, styles, opts, idx, sidx, matched, consume,
                    noa, pos, tried, won, consumed, skipped, noaFrom, procs, invoked >>

\* The Main process at noa_main().
MainScanStep ==
    /\ pc = "MainScan"
    /\ RunNoa("Main", noa_main, "PostCheck")
    /\ UNCHANGED << ret, first, keeper, nodelay, invs, reg, args, strict, styles, idx, sidx, matched, consume,
                    noa, pos, tried, won, consumed, skipped, noaFrom >>

\* self.checker().post_check(set)?, then Ok(())
PostCheckStep ==
    /\ pc = "PostCheck"
    /\ IF post_check(opts)
       THEN pc' = "Done" /\ UNCHANGED err
       ELSE Fail("PostCheckFailed", << >>)
    /\ UNCHANGED << ret, first, keeper, nodelay, invs, reg, args, strict, styles, opts, idx, sidx, matched, consume,
                    noa, pos, stages, tried, won, consumed, skipped, noaFrom, procs, invoked >>

\* Error::is_failure: the errors raised as failures (Error::sp_*), as
\* opposed to the errors raised with Error::raise_error.
FailureKinds ==
    { "PreCheckFailed", "OptionNotFound", "MissingArgument", "RequiredOptionUnset",
      "RequiredCmdUnset", "RequiredPosUnset", "PostCheckFailed", "Failure" }

is_failure(e) == e.kind \in FailureKinds

\* Ctx::default().with_orig_args(args.clone()).with_args(args); the NOA
\* stages start with ctx.set_args(noa_args.clone()).
Ctx ==
    [orig_args |-> args,
     args |-> IF \E i \in 1..Len(stages) : stages[i] = "CmdScan" THEN noa ELSE args]

\* ReturnVal::new(ctx), ReturnVal::new(ctx).with_failure(e), or Err(e)
\* which carries no Ctx.
ReturnOk == [ok |-> TRUE, status |-> TRUE, failure |-> NoError, ctx |-> Some(Ctx)]
ReturnFailure(e) == [ok |-> TRUE, status |-> FALSE, failure |-> e, ctx |-> Some(Ctx)]
ReturnErr(e) == [ok |-> FALSE, status |-> FALSE, failure |-> e, ctx |-> None]

\* parse handing every error to the caller as Err(e).
ParseResultErr(e) ==
    IF e = NoError THEN ReturnOk ELSE ReturnErr(e)

\* match self.parse_impl(..) { Ok(_) => .., Err(e) => if e.is_failure() .. }
ParseResult(e) ==
    IF e = NoError
    THEN ReturnOk
    ELSE IF is_failure(e) THEN ReturnFailure(e) ELSE ReturnErr(e)

\* FwdPolicy::parse returns what parse_impl left.
ParseReturn ==
    /\ pc \in {"Done", "Failed"} /\ ret = << >>
    /\ ret' = << ParseResult(err) >>
    /\ UNCHANGED << first, keeper, nodelay, invs, reg, args, strict, styles, opts, pc, idx,
                    sidx, matched, consume, noa, pos, err, stages, tried, won,
                    consumed, skipped, noaFrom, procs, invoked >>

Next ==
    \/ ParseReturn
    \/ PreCheckStep
    \/ NextToken
    \/ TryStyle
    \/ EndToken
    \/ ScanDone
    \/ OptCheckStep
    \/ CmdScanStep
    \/ CmdCheckStep
    \/ PosScanStep
    \/ PosScanDone
    \/ PosCheckStep
    \/ MainScanStep
    \/ PostCheckStep

Spec == Init /\ [][Next]_vars

\* One parse invocation runs to completion before it returns: the parse
\* is a plain synchronous call that nothing suspends, so a step that can
\* be taken is taken.
MaxLiveArgs == 2

InitLive == Init /\ Len(args) <= MaxLiveArgs

\* The steps that run an Option Process or a NOA Process, and the states
\* in which one of them is the step to take (their guards).
MatchStep == TryStyle \/ CmdScanStep \/ PosScanStep \/ MainScanStep

Matching ==
    \/ pc = "OptionScan" /\ sidx >= 1 /\ sidx <= Len(styles)
    \/ pc \in {"CmdScan", "MainScan"}
    \/ pc = "PosScan" /\ Len(noa) > 0 /\ pos \in PosRange(Len(noa))

\* The other steps of parse and parse_impl.
OtherStep ==
    \/ ParseReturn \/ PreCheckStep \/ NextToken \/ EndToken \/ ScanDone
    \/ OptCheckStep \/ CmdCheckStep \/ PosScanDone \/ PosCheckStep \/ PostCheckStep

\* Weak fairness of both kinds of step; for the matching steps ENABLED is
\* written out as their guard.
SpecLive ==
    /\ InitLive /\ [][Next]_vars
    /\ WF_vars(OtherStep)
    /\ ([]<>~Matching \/ []<><<MatchStep>>_vars)

-----------------------------------------------------------------------------
(* Parser::reset between two parses of the same tokens *)

MaxResetArgs == 2

\* The parses that are followed by reset() and a second parse.
InitReset ==
    /\ Init
    /\ reg \in {RegOpts, RegNoa}
    /\ styles = PriorityOrder
    /\ Len(args) <= MaxResetArgs

\* Set::reset: every option back to not set, no value, no raw value.
SetReset(os) ==
    [u \in DOMAIN os |-> [setted |-> FALSE, vals |-> << >>, raws |-> << >>]]

\* What a parse left: its result, the set, the NOA list, the handlers run.
Outcome == [ret |-> ret[1], opts |-> opts, noa |-> noa, invoked |-> invoked]

\* The start of the second parse: the locals of parse_impl are fresh.
ParseAgain ==
    /\ pc' = "PreCheck"
    /\ idx' = 1
    /\ sidx' = 0
    /\ matched' = FALSE
    /\ consume' = FALSE
    /\ noa' = << >>
    /\ pos' = 1
    /\ err' = NoError
    /\ stages' = << "PreCheck" >>
    /\ tried' = [i \in 1..Len(args) |-> << >>]
    /\ won' = [i \in 1..Len(args) |-> ""]
    /\ consumed' = {}
    /\ skipped' = {}
    /\ noaFrom' = << >>
    /\ procs' = << >>
    /\ invoked' = << >>
    /\ ret' = << >>

\* reset() that forgets self.optset.reset().
ResetStepNoSet ==
    /\ ret # << >> /\ first = << >>
    /\ first' = << Outcome >>
    /\ opts' = opts
    /\ ParseAgain
    /\ UNCHANGED << keeper, nodelay, invs, reg, args, strict, styles >>

\* Parser::reset() once parse has returned, then parse is called again
\* with the same tokens.
ResetStep ==
    /\ ret # << >> /\ first = << >>
    /\ first' = << Outcome >>
    /\ opts' = SetReset(opts)
    /\ ParseAgain
    /\ UNCHANGED << keeper, nodelay, invs, reg, args, strict, styles >>

NextReset ==
    \/ Next
    \/ ResetStep

SpecReset == InitReset /\ [][NextReset]_vars

-----------------------------------------------------------------------------
(* DelayParser::parse as a state machine *)

MaxDelayArgs == 3

\* -a=b -b=b --n=i dpos=p@1..2 main=m
RegDelay ==
    << BoolOpt(P1, <<"a">>), BoolOpt(P1, <<"b">>),
       NewOpt(<<"n">>, Some(P2), {}, {"Argument"}, None, FALSE,
              "App", "i", FALSE, "default"),
       PosOpt(<<"d", "p", "o", "s">>, 1, 2, FALSE),
       MainOpt(<<"m", "a", "i", "n">>) >>

ToksDelay ==
    { <<"-", "a">>, <<"-", "b">>, <<"-", "-", "n", "=", "1">>,
      <<"-", "-", "n", "=", "2">>, <<"5">> }

\* The settings of the no-delay set the parses are drawn from.
NoDelaySets == { {}, { <<"b">> } }

InitDelay ==
    \E n \in 0..MaxDelayArgs : \E a \in [1..n -> ToksDelay] : \E nd \in NoDelaySets :
        /\ reg = RegDelay
        /\ args = a
        /\ strict = FALSE
        /\ styles = LegacyOrder
        /\ opts = [u \in 1..Len(RegDelay) |-> [setted |-> FALSE, vals |-> << >>, raws |-> << >>]]
        /\ pc = "PreCheck"
        /\ idx = 1
        /\ sidx = 0
        /\ matched = FALSE
        /\ consume = FALSE
        /\ noa = << >>
        /\ pos = 1
        /\ err = NoError
        /\ stages = << "PreCheck" >>
        /\ tried = [i \in 1..n |-> << >>]
        /\ won = [i \in 1..n |-> ""]
        /\ consumed = {}
        /\ skipped = {}
        /\ noaFrom = << >>
        /\ procs = << >>
        /\ invoked = << >>
        /\ ret = << >>
        /\ first = << >>
        /\ keeper = [u \in 1..Len(RegDelay) |-> << >>]
        /\ nodelay = nd
        /\ callbacks = CallbacksOf(RegDelay)
        /\ entry = << >>
        /\ chains = [u \in 1..Len(RegDelay) |-> << >>]
        /\ calls = << >>
        /\ cands = << >>
        /\ parent = << >>
        /\ cote = << >>

\* An option of the no-delay set is not kept back.
IsNoDelay(uid) == reg[uid].name \in nodelay

\* value_keeper.entry(uid).or_insert(vec![]).push(value); `at` is the
\* index of the token the value came from.
AddDelayValue(kp, uid, arg, at) ==
    [kp EXCEPT ![uid] = Append(@, [arg |-> arg, at |-> at])]

RECURSIVE DelayKeepLoopNow(_, _, _, _, _, _, _)

\* Every matched option has its handler run at once, none is kept back.
DelayKeepLoopNow(proc, os, kp, saved, k, log, at) ==
    IF k > Len(saved)
    THEN [err |-> NoErr, proc |-> proc, opts |-> os, keeper |-> kp, log |-> log]
    ELSE DelayKeepLoopNow(proc,
                          Invoke(os, saved[k].uid, proc.matches[saved[k].index].arg).opts,
                          kp, saved, k + 1,
                          Append(log, [uid |-> saved[k].uid,
                                       arg |-> proc.matches[saved[k].index].arg]),
                          at)

RECURSIVE DelayKeepLoop(_, _, _, _, _, _, _)

\* The matched options of one process: the value of each goes to the
\* value keeper, its handler is left for later; an option of the
\* no-delay set has its handler run at once.
DelayKeepLoop(proc, os, kp, saved, k, log, at) ==
    IF k > Len(saved)
    THEN [err |-> NoErr, proc |-> proc, opts |-> os, keeper |-> kp, log |-> log]
    ELSE IF IsNoDelay(saved[k].uid)
    THEN DelayKeepLoop(proc,
                       Invoke(os, saved[k].uid, proc.matches[saved[k].index].arg).opts,
                       kp, saved, k + 1,
                       Append(log, [uid |-> saved[k].uid,
                                    arg |-> proc.matches[saved[k].index].arg]),
                       at)
    ELSE DelayKeepLoop(proc, os,
                       AddDelayValue(kp, saved[k].uid,
                                     proc.matches[saved[k].index].arg, at),
                       saved, k + 1, log, at)

DelayUndone(u, kp) ==
    [err |-> NoErr, proc |-> u.proc, opts |-> u.opts, keeper |-> kp, log |-> << >>]

DelayProcessOptEnd(r, kp, at) ==
    IF r.err # NoErr
    THEN [err |-> r.err, proc |-> r.proc, opts |-> r.opts, keeper |-> kp, log |-> << >>]
    ELSE IF OptProcIsMat(r.proc)
    THEN DelayKeepLoop(r.proc, r.opts, kp, r.saved, 1, << >>, at)
    ELSE DelayUndone(OptProcessUndo(r.proc, r.opts), kp)

\* Proc<OptMatcher>::process: offer the matcher to every uid of the set.
DelayProcessOpt(proc, os, kp, at) ==
    DelayProcessOptEnd(OptUidLoop(proc, os, 1, << >>), kp, at)

\* if self.process(&mut proc, set)? { matched, consume, break }
DelayProcessed(style, r, m) ==
    /\ opts' = r.opts
    /\ keeper' = r.keeper
    /\ invoked' = invoked \o Stamp(r.log, idx)
    /\ matched' = (matched \/ m)
    /\ consume' = (consume \/ (m /\ r.proc.consume_arg))
    /\ won' = IF matched \/ m THEN [won EXCEPT ![idx] = style] ELSE won
    /\ consumed' = IF m /\ r.proc.consume_arg THEN consumed \cup {idx} ELSE consumed
    /\ sidx' = IF matched \/ m THEN Len(styles) + 1 ELSE sidx + 1
    /\ UNCHANGED << pc, err >>

DelayGuessed(style, r) ==
    IF r.err # NoErr
    THEN /\ Fail(r.err, << >>)
         /\ opts' = r.opts
         /\ UNCHANGED << sidx, matched, consume, won, consumed, invoked, keeper >>
    ELSE DelayProcessed(style, r, OptProcIsMat(r.proc))

\* if let Some(ret) = gen_style.gen_opt::<OptMatcher>(arg)?
DelayGuessStyle(style, ms) ==
    IF ms = << >>
    THEN /\ sidx' = sidx + 1
         /\ UNCHANGED << opts, pc, err, matched, consume, won, consumed, invoked, keeper >>
    ELSE DelayGuessed(style, DelayProcessOpt(NewProc(ms), opts, keeper, idx))

\* One iteration of `for gen_style in &parser_state`.
DelayTryStyle ==
    /\ pc = "OptionScan" /\ sidx >= 1 /\ sidx <= Len(styles)
    /\ tried' = [tried EXCEPT ![idx] = Append(@, styles[sidx])]
    /\ DelayGuessStyle(styles[sidx],
                       OptGuess(styles[sidx], idx - 1, Len(args),
                                IF idx < Len(args) THEN Some(args[idx + 1]) ELSE None,
                                ParseArg(args[idx])))
    /\ UNCHANGED << ret, first, nodelay, invs, reg, args, strict, styles, idx, noa, pos,
                    stages, skipped, noaFrom, procs >>

\* if noa_count > 0 { the PSNonCmd process at index 1 }
DelayCmdScanStep ==
    /\ pc = "CmdScan"
    /\ IF Len(noa) > 0
       THEN RunNoa("Cmd", 1, "PosScan")
       ELSE UNCHANGED << opts, procs, invoked >> /\ Goto("PosScan")
    /\ pos' = 1
    /\ UNCHANGED << ret, first, keeper, nodelay, invs, reg, args, strict, styles, idx, sidx,
                    matched, consume, noa, tried, won, consumed, skipped, noaFrom >>

\* The range of `for index in 1..=noa_count`.
DelayPosRange(noa_count) == 1..noa_count

\* One iteration of the PSNonPos loop.
DelayPosScanStep ==
    /\ pc = "PosScan"
    /\ Len(noa) > 0 /\ pos \in DelayPosRange(Len(noa))
    /\ RunNoa("Pos", pos, "")
    /\ pos' = pos + 1
    /\ UNCHANGED << ret, first, keeper, nodelay, invs, reg, args, strict, styles, idx,
                    sidx, matched, consume, noa, tried, won, consumed,
                    skipped, noaFrom >>

DelayPosScanDone ==
    /\ pc = "PosScan"
    /\ ~(Len(noa) > 0 /\ pos \in DelayPosRange(Len(noa)))
    /\ Goto("NonOptCheck")
    /\ UNCHANGED << ret, first, keeper, nodelay, invs, reg, args, strict, styles, opts, idx,
                    sidx, matched, consume, noa, pos, tried, won, consumed, skipped,
                    noaFrom, procs, invoked >>

\* self.check_nonopt(set)? : check pos and cmd
CheckNonOptStep ==
    /\ pc = "NonOptCheck"
    /\ IF cmd_check(opts) /\ pos_check(opts)
       THEN Goto("DelayInvoke")
       ELSE Fail("RequiredPosUnset", << >>) /\ UNCHANGED stages
    /\ UNCHANGED << ret, first, keeper, nodelay, invs, reg, args, strict, styles, opts, idx,
                    sidx, matched, consume, noa, pos, tried, won, consumed, skipped,
                    noaFrom, procs, invoked >>

RECURSIVE KeptInvokeLoop(_, _, _, _, _)

\* for value in values { invoke_callback; set_callback_ret }; no handler
\* of the options declared for this parser returns an error, so the `?`
\* of invoke_callback never leaves the loop.
KeptInvokeLoop(os, uid, values, k, log) ==
    IF k > Len(values)
    THEN [opts |-> os, log |-> log]
    ELSE KeptInvokeLoop(Invoke(os, uid, values[k].arg).opts, uid, values, k + 1,
                        Append(log, [uid |-> uid, arg |-> values[k].arg,
                                     stage |-> "DelayInvoke", at |-> values[k].at]))

KeptInvoked(uid, r) ==
    /\ opts' = r.opts
    /\ invoked' = invoked \o r.log
    /\ keeper' = [keeper EXCEPT ![uid] = << >>]

\* The keys of the value keeper still to be visited.
KeeperKeys == { u \in Uids : keeper[u] # << >> }

\* One iteration of `for uid in uids`: the keys of a HashMap come in no
\* defined order, so any uid still kept may be the next; its values are
\* taken in the order they were pushed.
DelayInvokeStep ==
    /\ pc = "DelayInvoke"
    /\ \E uid \in KeeperKeys :
           KeptInvoked(uid, KeptInvokeLoop(opts, uid, keeper[uid], 1, << >>))
    /\ UNCHANGED << ret, first, nodelay, invs, reg, args, strict, styles, pc, idx, sidx,
                    matched, consume, noa, pos, err, stages, tried, won, consumed,
                    skipped, noaFrom, procs >>

DelayInvokeDone ==
    /\ pc = "DelayInvoke"
    /\ KeeperKeys = {}
    /\ Goto("MainScan")
    /\ UNCHANGED << ret, first, keeper, nodelay, invs, reg, args, strict, styles, opts, idx,
                    sidx, matched, consume, noa, pos, tried, won, consumed, skipped,
                    noaFrom, procs, invoked >>

NextDelay ==
    \/ PreCheckStep
    \/ NextToken
    \/ DelayTryStyle
    \/ EndToken
    \/ ScanDone
    \/ OptCheckStep
    \/ DelayCmdScanStep
    \/ DelayPosScanStep
    \/ DelayPosScanDone
    \/ CheckNonOptStep
    \/ DelayInvokeStep
    \/ DelayInvokeDone
    \/ MainScanStep
    \/ PostCheckStep

SpecDelay == InitDelay /\ [][NextDelay]_vars

-----------------------------------------------------------------------------
(* The Invoker and its HandlerEntry as a state machine *)

MaxChain == 2
MaxCalls == 2

\* --foo=i (Set) --bar=i (App), declared without handlers
RegInv ==
    << NewOpt(<<"f", "o", "o">>, Some(P2), {}, {"Argument"}, None, FALSE,
              "Set", "i", FALSE, "default"),
       NewOpt(<<"b", "a", "r">>, Some(P2), {}, {"Argument"}, None, FALSE,
              "App", "i", FALSE, "default") >>

\* The raw argument of the invocation context.
RawsInv == { <<"6">> }

\* What a user's handler returns: Ok(None) or Ok(Some(value)).
HandlerValue == 7
HandlerRets == { None, Some(HandlerValue) }

\* The stores a handler can be registered with through then().
Stores == { "null" }

\* A Set that has not been parsed yet and an Invoker without callbacks.
SetNew ==
    /\ reg = RegInv
    /\ args = << >>
    /\ strict = FALSE
    /\ styles = PriorityOrder
    /\ opts = [u \in 1..Len(RegInv) |-> [setted |-> FALSE, vals |-> << >>, raws |-> << >>]]
    /\ pc = "PreCheck"
    /\ idx = 1
    /\ sidx = 0
    /\ matched = FALSE
    /\ consume = FALSE
    /\ noa = << >>
    /\ pos = 1
    /\ err = NoError
    /\ stages = << "PreCheck" >>
    /\ tried = << >>
    /\ won = << >>
    /\ consumed = {}
    /\ skipped = {}
    /\ noaFrom = << >>
    /\ procs = << >>
    /\ invoked = << >>
    /\ ret = << >>
    /\ first = << >>
    /\ keeper = [u \in 1..Len(RegInv) |-> << >>]
    /\ nodelay = {}
    /\ callbacks = CallbacksOf(RegInv)
    /\ entry = << >>
    /\ chains = [u \in 1..Len(RegInv) |-> << >>]
    /\ calls = << >>
    /\ cands = << >>
    /\ parent = << >>

\* A parser that has not parsed yet, with an Invoker without callbacks.
InitInvoker == SetNew /\ cote = << >>

\* The state of the parser the Invoker does not touch.
parser == << reg, args, strict, styles, pc, idx, sidx, matched, consume, noa, pos,
             err, stages, tried, won, consumed, skipped, noaFrom, procs, invoked,
             ret, first, keeper, nodelay, cands, parent, cote >>

\* unreachable!() was hit: the program is gone.
Aborted == calls # << >> /\ Last(calls).out = "panic"

\* Invoker::entry(uid)
EntryNew ==
    \E uid \in Uids :
        /\ entry = << >> /\ ~Aborted /\ chains[uid] = << >>
        /\ entry' = << [uid |-> uid, handler |-> None, register |-> FALSE] >>
        /\ UNCHANGED << callbacks, chains, calls, opts, parser >>

\* Invoker::set_raw(uid, handler)
set_raw(uid, handler) == [callbacks EXCEPT ![uid] = << handler >>]

\* HandlerEntry::on(handler)
EntryOn ==
    /\ entry # << >> /\ Len(chains[entry[1].uid]) < MaxChain
    /\ entry' = << [entry[1] EXCEPT !.handler = Some("user")] >>
    /\ chains' = [chains EXCEPT ![entry[1].uid] = Append(@, "on")]
    /\ UNCHANGED << callbacks, calls, opts, parser >>

\* fallback(handler) registering the handler as on(handler) is registered
\* when the entry is dropped.
EntryFallbackAsOn ==
    /\ entry # << >> /\ Len(chains[entry[1].uid]) < MaxChain
    /\ IF ~entry[1].register
       THEN /\ callbacks' = set_raw(entry[1].uid, Wrapped("action", "user", "action"))
            /\ entry' = << [entry[1] EXCEPT !.register = TRUE] >>
       ELSE UNCHANGED << callbacks, entry >>
    /\ chains' = [chains EXCEPT ![entry[1].uid] = Append(@, "fallback")]
    /\ UNCHANGED << calls, opts, parser >>

\* HandlerEntry::fallback(handler)
EntryFallback ==
    /\ entry # << >> /\ Len(chains[entry[1].uid]) < MaxChain
    /\ IF ~entry[1].register
       THEN /\ callbacks' = set_raw(entry[1].uid, Wrapped("fallback", "user", "action"))
            /\ entry' = << [entry[1] EXCEPT !.register = TRUE] >>
       ELSE UNCHANGED << callbacks, entry >>
    /\ chains' = [chains EXCEPT ![entry[1].uid] = Append(@, "fallback")]
    /\ UNCHANGED << calls, opts, parser >>

\* HandlerEntry::then(store)
EntryThen ==
    \E store \in Stores :
        /\ entry # << >> /\ Len(chains[entry[1].uid]) < MaxChain
        /\ IF ~entry[1].register
           THEN /\ callbacks' = IF IsSome(entry[1].handler)
                                THEN set_raw(entry[1].uid,
                                             Wrapped("store", Get(entry[1].handler), store))
                                ELSE callbacks
                /\ entry' = << [entry[1] EXCEPT !.handler = None, !.register = TRUE] >>
           ELSE UNCHANGED << callbacks, entry >>
        /\ chains' = [chains EXCEPT ![entry[1].uid] = Append(@, "then")]
        /\ UNCHANGED << calls, opts, parser >>

\* A drop that registers the pending handler whether or not the entry
\* has registered already.
EntryDropAgain ==
    /\ entry # << >>
    /\ callbacks' = IF IsSome(entry[1].handler)
                    THEN set_raw(entry[1].uid,
                                 Wrapped("action", Get(entry[1].handler), "action"))
                    ELSE callbacks
    /\ entry' = << >>
    /\ UNCHANGED << chains, calls, opts, parser >>

\* HandlerEntry::submit and Drop::drop: a handler that is not registered
\* yet is registered with the option's Action as its store.
EntryDrop ==
    /\ entry # << >>
    /\ callbacks' = IF ~entry[1].register /\ IsSome(entry[1].handler)
                    THEN set_raw(entry[1].uid,
                                 Wrapped("action", Get(entry[1].handler), "action"))
                    ELSE callbacks
    /\ entry' = << >>
    /\ UNCHANGED << chains, calls, opts, parser >>

\* What a callback or the default handler reports: its result, whether
\* the default handler ran and which store processed the handler's value.
Ran(r, dflt, store) ==
    [ret |-> r.ret, err |-> r.err, opts |-> r.opts, default |-> dflt, store |-> store]

\* Action as a store: a value is stored by the Action, together with the
\* raw value; without a value nothing is stored and the result is false.
ActionProcess(os, uid, raw, val) ==
    IF IsSome(val)
    THEN [ret |-> TRUE, err |-> NoErr,
          opts |-> [os EXCEPT ![uid] =
                       StoreVal(os[uid], reg[uid].action, Get(val),
                                IF IsSome(raw) THEN Append(os[uid].raws, Get(raw))
                                ELSE os[uid].raws)]]
    ELSE [ret |-> FALSE, err |-> NoErr, opts |-> os]

\* NullStore: stores nothing and reports true.
NullStoreProcess(os) == [ret |-> TRUE, err |-> NoErr, opts |-> os]

\* The wrapped handler: call the user's handler (it returned val), then
\* the store; wrap_handler_fallback calls the default handler when the
\* handler returned None.
RunCallback(cb, os, uid, raw, val) ==
    CASE cb.wrap = "store" /\ cb.store = "null" -> Ran(NullStoreProcess(os), FALSE, "null")
      [] cb.wrap = "fallback" /\ ~IsSome(val) -> Ran(Fallback(os, uid, raw), TRUE, "default")
      [] OTHER -> Ran(ActionProcess(os, uid, raw, val), FALSE, "action")

CallOut(r) == IF r.err # NoErr THEN "err" ELSE IF r.ret THEN "true" ELSE "false"

\* The call returned r.
Called(uid, via, raw, val, r) ==
    /\ calls' = Append(calls, [uid |-> uid, via |-> via, raw |-> raw, val |-> val,
                               had |-> callbacks[uid], out |-> CallOut(r),
                               default |-> r.default, store |-> r.store,
                               pre |-> opts[uid], post |-> r.opts[uid]])
    /\ opts' = r.opts

\* invoke without a callback returning an error value.
NoCallbackErr(uid, raw) ==
    /\ calls' = Append(calls, [uid |-> uid, via |-> "invoke", raw |-> raw, val |-> None,
                               had |-> << >>, out |-> "err",
                               default |-> FALSE, store |-> "none",
                               pre |-> opts[uid], post |-> opts[uid]])
    /\ opts' = opts

\* unreachable!("There is no callback of {}, call `invoke_default` instead")
NoCallback(uid, raw) ==
    /\ calls' = Append(calls, [uid |-> uid, via |-> "invoke", raw |-> raw, val |-> None,
                               had |-> << >>, out |-> "panic",
                               default |-> FALSE, store |-> "none",
                               pre |-> opts[uid], post |-> opts[uid]])
    /\ opts' = opts

\* Invoker::invoke(set, ser, ctx) for a context with uid and raw argument;
\* val is what the user's handler returns.
InvokerInvoke ==
    \E uid \in Uids : \E raw \in RawsInv : \E val \in HandlerRets :
        /\ entry = << >> /\ ~Aborted /\ Len(calls) < MaxCalls
        /\ IF callbacks[uid] = << >>
           THEN NoCallback(uid, Some(raw))
           ELSE Called(uid, "invoke", Some(raw), val,
                       RunCallback(callbacks[uid][1], opts, uid, Some(raw), val))
        /\ UNCHANGED << callbacks, entry, chains, parser >>

\* Invoker::invoke_default(set, ser, ctx)
InvokerInvokeDefault ==
    \E uid \in Uids : \E raw \in RawsInv :
        /\ entry = << >> /\ ~Aborted /\ Len(calls) < MaxCalls
        /\ Called(uid, "invoke_default", Some(raw), None,
                  Ran(Fallback(opts, uid, Some(raw)), TRUE, "default"))
        /\ UNCHANGED << callbacks, entry, chains, parser >>

NextInvoker ==
    \/ EntryNew
    \/ EntryOn
    \/ EntryFallback
    \/ EntryThen
    \/ EntryDrop
    \/ InvokerInvoke
    \/ InvokerInvokeDefault

SpecInvoker == InitInvoker /\ [][NextInvoker]_vars

-----------------------------------------------------------------------------
(* OptGuess::guess run on one option token *)

\* Option tokens: with and without =value, with the disable mark, with
\* names of one, two, three and five characters.
ToksGuess ==
    { <<"-", "a">>, <<"-", "/", "a">>, <<"-", "a", "b">>, <<"-", "a", "b", "c">>,
      <<"-", "/", "a", "b">>, <<"-", "o", "4", "2">>, <<"-", "a", "=", "1">>,
      P2 \o sCount, P2 \o sCount \o <<"=", "5">>, P2 \o <<"/">> \o sCount,
      P2 \o sCount \o <<"=">> }

\* The parse stands in its token loop at the first token, which passed
\* set.check, with one style left to try; the token may be the last one.
InitGuess ==
    \E tok \in ToksGuess : \E nxt \in {<< >>} \cup { << t >> : t \in ToksGuess } :
    \E st \in { PriorityOrder[k] : k \in 1..Len(PriorityOrder) } :
        /\ reg = RegOpts
        /\ args = << tok >> \o nxt
        /\ strict = FALSE
        /\ styles = << st >>
        /\ opts = [u \in 1..Len(RegOpts) |-> [setted |-> FALSE, vals |-> << >>, raws |-> << >>]]
        /\ pc = "OptionScan"
        /\ idx = 1
        /\ sidx = 1
        /\ matched = FALSE
        /\ consume = FALSE
        /\ noa = << >>
        /\ pos = 1
        /\ err = NoError
        /\ stages = << "PreCheck", "OptionScan" >>
        /\ tried = [i \in 1..(1 + Len(nxt)) |-> << >>]
        /\ won = [i \in 1..(1 + Len(nxt)) |-> ""]
        /\ consumed = {}
        /\ skipped = {}
        /\ noaFrom = << >>
        /\ procs = << >>
        /\ invoked = << >>
        /\ ret = << >>
        /\ first = << >>
        /\ keeper = [u \in 1..Len(RegOpts) |-> << >>]
        /\ nodelay = {}
        /\ callbacks = CallbacksOf(RegOpts)
        /\ entry = << >>
        /\ chains = [u \in 1..Len(RegOpts) |-> << >>]
        /\ calls = << >>
        /\ cands = << >>
        /\ parent = << >>
        /\ cote = << >>

\* OptGuess::new().guess(style, GuessOptCfg::new(idx, len, arg, clopt))
GuessStep ==
    /\ pc = "OptionScan" /\ sidx = 1 /\ cands = << >>
    /\ cands' = << StyleGuess >>
    /\ UNCHANGED << reg, args, strict, styles, opts, pc, idx, sidx, matched, consume,
                    noa, pos, err, stages, tried, won, consumed, skipped, noaFrom,
                    procs, invoked, ret, first, keeper, nodelay, callbacks, entry,
                    chains, calls, parent, cote >>

NextGuess == GuessStep

SpecGuess == InitGuess /\ [][NextGuess]_vars

-----------------------------------------------------------------------------
(* A sub-command handler that hands the remaining tokens to the parser of
   its sub-command (the handler cote-derive generates) *)

MaxSubArgs == 3

\* -x=b set=c : the Cmd `set` carries the generated handler
RegApp ==
    << BoolOpt(P1, <<"x">>),
       NewOpt(sSet, None, {}, {"Cmd"}, Some([lo |-> 1, hi |-> 2]), FALSE,
              "Set", "c", FALSE, "sub") >>

\* The Set of the sub-command's parser: -y=b! q=p@1
RegSub ==
    << NewOpt(<<"y">>, Some(P1), {}, {"Boolean", "Combined"}, None, TRUE,
              "Set", "b", FALSE, "default"),
       PosOpt(<<"q">>, 1, 2, FALSE) >>

ToksApp == { <<"-", "x">>, sSet, <<"-", "y">>, <<"5">> }

\* What the handler extracts from the sub-parser's Set on success.
SubValue == TRUE

InitSub ==
    \E n \in 0..MaxSubArgs : \E a \in [1..n -> ToksApp] : \E st \in BOOLEAN :
        /\ reg = RegApp
        /\ args = a
        /\ strict = st
        /\ styles = PriorityOrder
        /\ opts = [u \in 1..Len(RegApp) |-> [setted |-> FALSE, vals |-> << >>, raws |-> << >>]]
        /\ pc = "PreCheck"
        /\ idx = 1
        /\ sidx = 0
        /\ matched = FALSE
        /\ consume = FALSE
        /\ noa = << >>
        /\ pos = 1
        /\ err = NoError
        /\ stages = << "PreCheck" >>
        /\ tried = [i \in 1..n |-> << >>]
        /\ won = [i \in 1..n |-> ""]
        /\ consumed = {}
        /\ skipped = {}
        /\ noaFrom = << >>
        /\ procs = << >>
        /\ invoked = << >>
        /\ ret = << >>
        /\ first = << >>
        /\ keeper = [u \in 1..Len(RegApp) |-> << >>]
        /\ nodelay = {}
        /\ callbacks = CallbacksOf(RegApp)
        /\ entry = << >>
        /\ chains = [u \in 1..Len(RegApp) |-> << >>]
        /\ calls = << >>
        /\ cands = << >>
        /\ parent = << >>
        /\ cote = << >>

\* The Cmd candidate of the running parse.
CmdGuess == NOAGuess("Cmd", noa, noa_cmd, Len(noa))

\* The options with the generated handler the Cmd candidate matches.
SubUids ==
    { u \in Uids : /\ reg[u].handler = "sub"
                   /\ NOAProcessProcess(CmdGuess, u, opts).index # 0 }

\* The Cmd process is about to call the generated handler.
SubMatched == pc = "CmdScan" /\ Len(noa) > 0 /\ parent = << >> /\ SubUids # {}

\* The parse that waits while the handler runs: the Set and its options
\* as they are when the handler is called, the locals of parse_impl, the
\* candidate and the uid the handler was called for.
Frame(mat, uid, os) ==
    [phase |-> "sub", res |-> << >>, subopts |-> << >>, mat |-> mat, uid |-> uid,
     reg |-> reg, args |-> args, strict |-> strict, styles |-> styles, opts |-> os,
     pc |-> pc, idx |-> idx, sidx |-> sidx, matched |-> matched, consume |-> consume,
     noa |-> noa, pos |-> pos, err |-> err, stages |-> stages, tried |-> tried,
     won |-> won, consumed |-> consumed, skipped |-> skipped, noaFrom |-> noaFrom,
     procs |-> procs, invoked |-> invoked, keeper |-> keeper,
     callbacks |-> callbacks, chains |-> chains]

\* parser.init()?; parser.parse(args): the sub-parser starts on its own
\* Set with the given tokens.
SubParse(set, tokens, st) ==
    /\ reg' = set
    /\ args' = tokens
    /\ strict' = st
    /\ opts' = [u \in 1..Len(set) |-> [setted |-> FALSE, vals |-> << >>, raws |-> << >>]]
    /\ pc' = "PreCheck"
    /\ idx' = 1
    /\ sidx' = 0
    /\ matched' = FALSE
    /\ consume' = FALSE
    /\ noa' = << >>
    /\ pos' = 1
    /\ err' = NoError
    /\ stages' = << "PreCheck" >>
    /\ tried' = [i \in 1..Len(tokens) |-> << >>]
    /\ won' = [i \in 1..Len(tokens) |-> ""]
    /\ consumed' = {}
    /\ skipped' = {}
    /\ noaFrom' = << >>
    /\ procs' = << >>
    /\ invoked' = << >>
    /\ ret' = << >>
    /\ keeper' = [u \in 1..Len(set) |-> << >>]
    /\ callbacks' = CallbacksOf(set)
    /\ chains' = [u \in 1..Len(set) |-> << >>]

\* The handler giving the sub-parser the Set of the parent to parse into.
DelegateTo(uid, r) ==
    /\ parent' = << Frame(r.mat, uid, r.opts) >>
    /\ \E st \in BOOLEAN : SubParse(RegSub, Drop(noa, noa_cmd), st)
    /\ UNCHANGED << styles, first, nodelay, entry, calls, cands, cote >>

\* The Cmd process matched the option and calls its handler: the handler
\* takes the tokens of the context without the command's own
\* (args.remove(index)) and parses them with the sub-command's parser.
\* (No option of RegApp before the Cmd is of a NOA style, so the Cmd is
\* the first option the candidate is offered to.)
Delegate ==
    /\ SubMatched
    /\ \E uid \in SubUids :
          /\ \A v \in SubUids : uid <= v
          /\ DelegateTo(uid, NOAProcessProcess(CmdGuess, uid, opts))

\* The sub-parser's parse has returned inside the handler: the handler
\* has read the parent's Set only, so the waiting parse finds its Set as
\* it was when the handler was called.
Returned(f, os) ==
    /\ reg' = f.reg
    /\ args' = f.args
    /\ strict' = f.strict
    /\ opts' = os
    /\ pc' = f.pc
    /\ idx' = f.idx
    /\ sidx' = f.sidx
    /\ matched' = f.matched
    /\ consume' = f.consume
    /\ noa' = f.noa
    /\ pos' = f.pos
    /\ err' = f.err
    /\ stages' = f.stages
    /\ tried' = f.tried
    /\ won' = f.won
    /\ consumed' = f.consumed
    /\ skipped' = f.skipped
    /\ noaFrom' = f.noaFrom
    /\ procs' = f.procs
    /\ invoked' = f.invoked
    /\ ret' = << >>
    /\ keeper' = f.keeper
    /\ callbacks' = f.callbacks
    /\ chains' = f.chains
    /\ parent' = << [f EXCEPT !.phase = "back", !.res = ret, !.subopts = opts] >>
    /\ UNCHANGED << styles, first, nodelay, entry, calls, cands, cote >>

\* A handler that marks in the parent's Set what the sub-parser set.
SubReturnMarking ==
    /\ parent # << >> /\ parent[1].phase = "sub" /\ ret # << >>
    /\ Returned(parent[1],
                [u \in DOMAIN parent[1].opts |->
                    IF u \in DOMAIN opts /\ opts[u].setted
                    THEN [parent[1].opts[u] EXCEPT !.setted = TRUE]
                    ELSE parent[1].opts[u]])

SubReturn ==
    /\ parent # << >> /\ parent[1].phase = "sub" /\ ret # << >>
    /\ Returned(parent[1], parent[1].opts)

\* What the handler returns: Ok(Some(value)) when the sub-parse succeeded,
\* which the Action of the Cmd stores; Err(raise_failure(..)) when it
\* failed; the error itself when parse returned Err.
SubHandler(f, os) ==
    IF f.res[1].ok /\ f.res[1].status
    THEN ActionProcess(os, f.uid, NOAMatchArg(f.mat), Some(SubValue))
    ELSE [ret |-> FALSE,
          err |-> IF f.res[1].ok THEN "Failure" ELSE f.res[1].failure.kind,
          opts |-> os]

\* The handler returns and the Cmd process and the CmdScan stage go on.
SubFinish ==
    /\ parent # << >> /\ parent[1].phase = "back"
    /\ NoaProcessed("Cmd", noa_cmd, parent[1].mat,
                    NOAInvoked(parent[1].mat, parent[1].uid,
                               << [uid |-> parent[1].uid, arg |-> NOAMatchArg(parent[1].mat)] >>,
                               SubHandler(parent[1], opts)),
                    "CmdCheck")
    /\ parent' = << >>
    /\ UNCHANGED << ret, first, keeper, nodelay, callbacks, entry, chains, calls, cands,
                    reg, args, strict, styles, idx, sidx, matched, consume, noa, pos,
                    tried, won, consumed, skipped, noaFrom, cote >>

\* CmdScan of a parse whose Cmd candidate reaches no generated handler.
SubCmdScanStep ==
    /\ ~SubMatched
    /\ ~(parent # << >> /\ parent[1].phase = "back")
    /\ CmdScanStep

NextSub ==
    \/ ParseReturn
    \/ PreCheckStep
    \/ NextToken
    \/ TryStyle
    \/ EndToken
    \/ ScanDone
    \/ OptCheckStep
    \/ SubCmdScanStep
    \/ CmdCheckStep
    \/ PosScanStep
    \/ PosScanDone
    \/ PosCheckStep
    \/ MainScanStep
    \/ PostCheckStep
    \/ Delegate
    \/ SubReturn
    \/ SubFinish

SpecSub == InitSub /\ [][NextSub]_vars

\* Invoker::entry(uid) for a uid an earlier entry was made for: the chain
\* recorded for the uid starts again, the callbacks are as they were left.
EntryAgain ==
    \E uid \in Uids :
        /\ entry = << >> /\ ~Aborted /\ chains[uid] # << >>
        /\ entry' = << [uid |-> uid, handler |-> None, register |-> FALSE] >>
        /\ chains' = [chains EXCEPT ![uid] = << >>]
        /\ UNCHANGED << callbacks, calls, opts, parser >>

\* The parser of the application before it parses: the Invoker holds the
\* callback the `set` command was declared with.
InitEntry == InitSub /\ args = << >> /\ ~strict

\* Entries made on the Invoker, any number per uid and one at a time (an
\* entry borrows the Invoker mutably).
NextEntry ==
    \/ EntryNew
    \/ EntryAgain
    \/ EntryOn
    \/ EntryFallback
    \/ EntryThen
    \/ EntryDrop

SpecEntry == InitEntry /\ [][NextEntry]_vars

-----------------------------------------------------------------------------
(* The cote Parser: the Set together with its services and its Invoker,
   and PolicyParser::parse_policy *)

MaxPolicyCalls == 3

\* The services and invokers a parser can be given: the ones it was made
\* with and the ones given to it later.
Given == { "first", "later" }

\* What policy.parse(self, &mut inv, &mut ser, args) returns.
PolicyRets == { "Ok", "Err" }

\* Parser { ser, inv, .. }; at: outside a call, inside policy.parse, or
\* gone in a panic; local: the `inv` and `ser` of parse_policy; rets:
\* history, what the calls of parse_policy returned ("InitErr": the error
\* of self.init()).
Cote(ser, inv) ==
    [ser |-> ser, inv |-> inv, at |-> "idle", local |-> << >>, rets |-> << >>]

\* Parser::default() (both present) or Parser::new(name, set) (both None).
InitPolicy ==
    /\ SetNew
    /\ cote \in { << Cote(Some("first"), Some("first")) >>, << Cote(None, None) >> }

\* Everything but the cote Parser's own fields.
wrapped == << reg, args, strict, styles, opts, pc, idx, sidx, matched, consume,
             noa, pos, err, stages, tried, won, consumed, skipped, noaFrom, procs,
             invoked, ret, first, keeper, nodelay, callbacks, entry, chains, calls,
             cands, parent >>

\* Parser::set_service(ser); a handler reaches it through the Set it is
\* handed, which is the parser itself.
SetService ==
    /\ cote # << >> /\ cote[1].at # "panic" /\ cote[1].ser # Some("later")
    /\ cote' = << [cote[1] EXCEPT !.ser = Some("later")] >>
    /\ UNCHANGED wrapped

\* Parser::set_invoker(inv)
SetInvoker ==
    /\ cote # << >> /\ cote[1].at # "panic" /\ cote[1].inv # Some("later")
    /\ cote' = << [cote[1] EXCEPT !.inv = Some("later")] >>
    /\ UNCHANGED wrapped

\* Parser::service() and Parser::invoker(): assert!(self.ser.is_some()),
\* assert!(self.inv.is_some()).  (With the field present the call changes
\* nothing.)
Access ==
    /\ cote # << >> /\ cote[1].at # "panic"
    /\ ~IsSome(cote[1].ser) \/ ~IsSome(cote[1].inv)
    /\ cote' = << [cote[1] EXCEPT !.at = "panic", !.local = << >>] >>
    /\ UNCHANGED wrapped

\* parse_policy up to policy.parse: the two asserts, self.init()?, the
\* two take().unwrap().
ParsePolicyCall ==
    /\ cote # << >> /\ cote[1].at = "idle" /\ Len(cote[1].rets) < MaxPolicyCalls
    /\ IF ~IsSome(cote[1].inv) \/ ~IsSome(cote[1].ser)
       THEN cote' = << [cote[1] EXCEPT !.at = "panic"] >>
       ELSE \E init \in BOOLEAN :
               cote' = IF init
                       THEN << [cote[1] EXCEPT
                                   !.at = "parse",
                                   !.local = << [inv |-> Get(cote[1].inv),
                                                 ser |-> Get(cote[1].ser)] >>,
                                   !.inv = None, !.ser = None] >>
                       ELSE << [cote[1] EXCEPT !.rets = Append(@, "InitErr")] >>
    /\ UNCHANGED wrapped

\* parse_policy returning the error of policy.parse with `?`, before the
\* invoker and the services are put back.
ParsePolicyReturnEarly ==
    \E r \in PolicyRets :
        /\ cote # << >> /\ cote[1].at = "parse"
        /\ cote' = IF r = "Err"
                   THEN << [cote[1] EXCEPT !.at = "idle", !.local = << >>,
                                           !.rets = Append(@, r)] >>
                   ELSE << [cote[1] EXCEPT !.at = "idle", !.local = << >>,
                                           !.inv = Some(cote[1].local[1].inv),
                                           !.ser = Some(cote[1].local[1].ser),
                                           !.rets = Append(@, r)] >>
        /\ UNCHANGED wrapped

\* policy.parse returned r: self.inv = Some(inv); self.ser = Some(ser); ret
ParsePolicyReturn ==
    \E r \in PolicyRets :
        /\ cote # << >> /\ cote[1].at = "parse"
        /\ cote' = << [cote[1] EXCEPT !.at = "idle", !.local = << >>,
                                      !.inv = Some(cote[1].local[1].inv),
                                      !.ser = Some(cote[1].local[1].ser),
                                      !.rets = Append(@, r)] >>
        /\ UNCHANGED wrapped

\* policy.parse panicked (a handler did, or the Invoker had no callback):
\* the call does not return, its locals are dropped.
PolicyPanic ==
    /\ cote # << >> /\ cote[1].at = "parse"
    /\ cote' = << [cote[1] EXCEPT !.at = "panic", !.local = << >>] >>
    /\ UNCHANGED wrapped

NextPolicy ==
    \/ SetService
    \/ SetInvoker
    \/ Access
    \/ ParsePolicyCall
    \/ ParsePolicyReturn
    \/ PolicyPanic

SpecPolicy == InitPolicy /\ [][NextPolicy]_vars

-----------------------------------------------------------------------------
(* Properties *)

StageOrder ==
    << "PreCheck", "OptionScan", "OptCheck", "CmdScan", "CmdCheck",
       "PosScan", "PosCheck", "MainScan", "PostCheck" >>

StageNo(stage) == CHOOSE k \in 1..Len(StageOrder) : StageOrder[k] = stage

IsPrefix(s, t) == Len(s) <= Len(t) /\ SubSeq(t, 1, Len(s)) = s

Range(s) == {s[k] : k \in 1..Len(s)}

Scanned(i) ==
    /\ tried[i] # << >>
    /\ ~(pc = "OptionScan" /\ idx = i /\ sidx \in 1..Len(styles))

\* The enabled styles in the spec's priority order.
EnabledByPriority == SelectSeq(PriorityOrder, LAMBDA st : st \in Range(styles))

\* C2 (as stated): every token is tried against the enabled styles in the
\* order EqualWithValue, Argument, EmbeddedValue, Combined, Boolean, up to
\* and including the first style that matches.
C2_PriorityOrder ==
    \A i \in 1..Len(args) :
        /\ IsPrefix(tried[i], EnabledByPriority)
        /\ won[i] # "" => Last(tried[i]) = won[i]

\* C2 (amended): every token is tried against the styles in the order of
\* the configured style list, up to and including the first style whose
\* process matches; a token no style matches has been tried against all.
C2_ConfiguredOrder ==
    \A i \in 1..Len(args) :
        /\ IsPrefix(tried[i], styles)
        /\ won[i] # "" => tried[i] # << >> /\ Last(tried[i]) = won[i]
        /\ (Scanned(i) /\ won[i] = "" /\ pc # "Failed") => tried[i] = styles
        /\ \A k \in 1..Len(invoked) :
               (invoked[k].stage = "OptionScan" /\ invoked[k].at = i)
                   => tried[i] # << >>

\* A token won by a style that is neither the first nor the last of the
\* list, in a parse that went on after it.
C2_Witness ==
    \E i \in 1..Len(args) :
        /\ won[i] = "Argument"
        /\ idx > i
        /\ Len(tried[i]) = 2
        /\ Len(styles) = 5

\* C3: once token i is done, the token after it has been skipped exactly
\* when the match that won token i consumed it; a skipped token is neither
\* tried as an option nor pushed to NOA.
C3_SkipIffConsumed ==
    /\ \A i \in 1..(Len(args) - 1) :
           idx > i => ((i + 1 \in skipped) <=> (i \in consumed))
    /\ \A j \in skipped : tried[j] = << >> /\ j \notin Range(noaFrom)

\* Token i parsed to a prefixed option name, every enabled style was
\* tried for it and none matched (the style loop of the token is over, and
\* no error of a handler ended it).
Unmatched(i) ==
    /\ IsSome(ParseArg(args[i]).prefix)
    /\ IsSome(ParseArg(args[i]).name)
    /\ tried[i] = styles
    /\ won[i] = ""
    /\ ~(pc = "OptionScan" /\ idx = i /\ sidx # 0)
    /\ ~(pc = "Failed" /\ idx = i /\ sidx \in 1..Len(styles))

C4_WitnessLenient ==
    /\ ~strict
    /\ pc = "Done"
    /\ \E i \in 1..Len(args) : Unmatched(i) /\ i \in Range(noaFrom)

\* No token of the input carries a recognized prefix.
NoPrefixed == \A i \in 1..Len(args) : ~IsSome(ParseArg(args[i]).prefix)

\* C5: with no prefixed token in the input, OptionScan tries no style,
\* sets no option and invokes no handler, and the NOA list it hands on is
\* the whole input in its order.
C5_NoPrefixAllNoa ==
    NoPrefixed =>
        /\ pc = "OptionScan" => noa = SubSeq(args, 1, idx - 1)
        /\ Len(stages) >= 3 => noa = args
        /\ noaFrom = [k \in 1..Len(noa) |-> k]
        /\ \A i \in 1..Len(args) : tried[i] = << >> /\ won[i] = ""
        /\ \A k \in 1..Len(invoked) : invoked[k].stage # "OptionScan"
        /\ Len(stages) <= 3 => \A u \in Uids : ~opts[u].setted
        /\ skipped = {}

\* OptionScan is over for an input of three or more unprefixed tokens.
C5_Witness ==
    /\ NoPrefixed
    /\ Len(args) >= 3
    /\ pc = "OptCheck"
    /\ noa = args

\* The scan of the options is over (or has failed).
ScanOver == pc \notin {"PreCheck", "OptionScan"}

\* What --count holds after it was given the value v once.
Stored(v) ==
    IF RawOk(RegVal[1].ty, Some(v))
    THEN [setted |-> TRUE, vals |-> << RawParse(RegVal[1].ty, Some(v)) >>, raws |-> << v >>]
    ELSE [setted |-> FALSE, vals |-> << >>, raws |-> << >>]

\* C6 (as stated): for every value v without "=", the parse of --count=v
\* and the parse of --count v leave --count with the same stored values
\* and setted flag.
C6_SameStored ==
    \A v \in Values :
        (reg = RegVal /\ ScanOver /\ args \in { << OptEq(v) >>, << P2 \o sCount, v >> })
            => opts[1] = Stored(v)

\* The values the amended claim covers.
PlainValues ==
    { v \in Values : RawOk(RegVal[1].ty, Some(v)) \/ ~IsSome(ParseArg(v).prefix) }

\* C6 (amended): for every value v without "=" that converts to the
\* option's type or carries no option prefix, the parse of --count=v and
\* the parse of --count v leave --count with the same stored values and
\* setted flag; --count=v leaves them for every v.
C6_SameStoredPlain ==
    /\ \A v \in Values :
           (reg = RegVal /\ ScanOver /\ args = << OptEq(v) >>) => opts[1] = Stored(v)
    /\ \A v \in PlainValues :
           (reg = RegVal /\ ScanOver /\ args = << P2 \o sCount, v >>) => opts[1] = Stored(v)

\* The two-token spelling was parsed and stored its value.
C6_Witness ==
    /\ reg = RegVal
    /\ pc = "Done"
    /\ args = << P2 \o sCount, <<"-", "5">> >>
    /\ opts[1].vals = << 0 - 5 >>
    /\ skipped = {2}

tABC == <<"-", "a", "b", "c">>
tABD == <<"-", "a", "b", "d">>

CombinedOn == "CombinedOption" \in Range(styles)

\* The style loop and the tail of the iteration are over for token i.
TokenDone(i) ==
    /\ tried[i] # << >>
    /\ ~(pc = "OptionScan" /\ idx = i /\ sidx # 0)

\* C7: with Combined enabled and -a, -b, -c declared, right after the
\* token -abc all three options are set; the token -abd (d is not
\* declared) invokes no handler, fails a strict parse with option not found
\* and goes to NOA as a whole in a lenient parse.
C7_Combined ==
    (reg = RegOpts /\ CombinedOn) =>
        \A i \in 1..Len(args) :
            /\ (args[i] = tABC /\ TokenDone(i) /\ idx = i + 1 /\ sidx = 0) =>
                   /\ won[i] = "CombinedOption"
                   /\ \A u \in 1..3 : opts[u].setted /\ opts[u].vals = << TRUE >>
                   /\ i \notin Range(noaFrom)
            /\ (args[i] = tABD /\ TokenDone(i)) =>
                   /\ won[i] = ""
                   /\ \A k \in 1..Len(invoked) :
                          ~(invoked[k].stage = "OptionScan" /\ invoked[k].at = i)
                   /\ IF strict
                      THEN pc = "Failed" /\ err.kind = "OptionNotFound" /\ idx = i
                      ELSE \E k \in 1..Len(noa) : noaFrom[k] = i /\ noa[k] = tABD

\* -abc has just set -a, -b and -c.
C7_Witness ==
    /\ reg = RegOpts /\ CombinedOn
    /\ Len(args) >= 1 /\ args[1] = tABC /\ idx = 2 /\ sidx = 0
    /\ \A u \in 1..3 : opts[u].setted

\* -abd went to NOA in a lenient parse.
C7_WitnessLenient ==
    /\ reg = RegOpts /\ CombinedOn /\ ~strict
    /\ \E i \in 1..Len(args) : args[i] = tABD /\ i \in Range(noaFrom)

OptStyles == {"Argument", "Boolean", "Combined"}

\* C8: when OptionScan ends with a force-required option unset, the parse
\* fails at OptCheck with RequiredOptionUnset naming the option; CmdScan,
\* PosScan and MainScan are not started, no NOA process is run and no
\* Cmd, Pos or Main handler is invoked.
C8_RequiredUnset ==
    /\ (Len(stages) >= 3 /\ pc # "OptCheck" /\ ~opt_check(opts)) =>
           /\ pc = "Failed"
           /\ stages = SubSeq(StageOrder, 1, 3)
           /\ err = [kind |-> "RequiredOptionUnset", what |-> FirstUnset(opts, OptStyles)]
           /\ procs = << >>
           /\ \A k \in 1..Len(invoked) : invoked[k].stage = "OptionScan"
    /\ err.kind = "RequiredOptionUnset" => Last(stages) = "OptCheck" /\ ~opt_check(opts)

\* --count=i! and an empty token list: failed at OptCheck.
C8_Witness ==
    /\ reg = RegOpts
    /\ args = << >>
    /\ pc = "Failed"
    /\ err = [kind |-> "RequiredOptionUnset", what |-> sCount]

\* The same with tokens that set other options and leave NOA tokens.
C8_WitnessNoa ==
    /\ reg = RegOpts
    /\ pc = "Failed"
    /\ err.kind = "RequiredOptionUnset"
    /\ Len(noa) > 0
    /\ \E u \in 1..3 : opts[u].setted

\* PosScan is over.
PosOver == Len(stages) >= 7

\* The NOA tokens at the positions p with lo <= p < hi, in position order.
TokensAt(lo, hi) ==
    [k \in 1..((IF hi - 1 < Len(noa) THEN hi - 1 ELSE Len(noa)) - lo + 1) |->
        noa[lo + k - 1]]

\* The Pos processes run so far, in the order they ran.
PosProcs == SelectSeq(procs, LAMBDA e : e.style = "Pos")

\* C9: with set=c, bpos=p@2..4 and the NOA list [set, 5, 6, extra] the Cmd
\* binds set at position 1, bpos holds 5 and 6 in that order and no Pos
\* process binds position 4; in general, once PosScan is over, a Pos option
\* of range lo..hi has received exactly the NOA tokens at the positions p
\* with lo <= p < hi, in position order (the tokens being values it accepts).
C9_PosRange ==
    /\ (reg = RegNoa /\ PosOver /\ noa = << sSet, <<"5">>, <<"6">>, sExtra >>) =>
           /\ opts[1].setted
           /\ \E k \in 1..Len(invoked) :
                  /\ invoked[k].uid = 1 /\ invoked[k].stage = "CmdScan"
                  /\ invoked[k].at = 1 /\ invoked[k].arg = Some(sSet)
           /\ opts[2].vals = << 5, 6 >>
           /\ \A k \in 1..Len(invoked) :
                  invoked[k].stage = "PosScan" => invoked[k].at # 4
    /\ \A u \in Uids :
           ( /\ PosOver
             /\ MatStyle(reg[u], "Pos")
             /\ \A p \in 1..Len(noa) :
                    MatIdx(reg[u], p, Len(noa)) => RawOk(reg[u].ty, Some(noa[p])) )
               => opts[u].raws = TokensAt(Get(reg[u].index).lo, Get(reg[u].index).hi)

\* C10: once PosScan is over it has run one Pos process for each of the
\* NOA positions 2..N, in increasing order, and no other.
C10_PosPositions ==
    PosOver =>
        [k \in 1..Len(PosProcs) |-> PosProcs[k].pos] = [k \in 1..(Len(noa) - 1) |-> k + 1]

\* What PosScan runs: one Pos process for each of the positions 1..N-1.
PosScanOffers ==
    PosOver =>
        [k \in 1..Len(PosProcs) |-> PosProcs[k].pos] = [k \in 1..(Len(noa) - 1) |-> k]

\* The handler invocations of the options (not of the NOA styles).
IsOptUid(u) == IsOptStyle(reg[u])

\* In every state: option handlers have run in OptionScan only, for the
\* tokens scanned so far and in token order, NOA handlers in the NOA
\* stages only, and an option holds a value only if its handler has run.
C11_Inv ==
    /\ \A k \in 1..Len(invoked) :
           IF IsOptUid(invoked[k].uid)
           THEN /\ invoked[k].stage = "OptionScan"
                /\ invoked[k].at <= idx
                /\ \A j \in 1..Len(invoked) :
                       (j < k /\ IsOptUid(invoked[j].uid)) => invoked[j].at <= invoked[k].at
                /\ \A j \in 1..Len(invoked) : ~IsOptUid(invoked[j].uid) => k < j
           ELSE invoked[k].stage \in {"CmdScan", "PosScan", "MainScan"}
    /\ \A u \in Uids :
           (IsOptUid(u) /\ (opts[u].vals # << >> \/ opts[u].raws # << >>))
               => \E k \in 1..Len(invoked) : invoked[k].uid = u

\* In every step: the step that matches a token invokes the handlers of
\* that token, and after OptionScan no option changes any more.
C11_Step ==
    /\ (pc = "OptionScan" /\ sidx \in 1..Len(styles) /\ won'[idx] # won[idx]) =>
           /\ Len(invoked') > Len(invoked)
           /\ \A k \in (Len(invoked) + 1)..Len(invoked') :
                  invoked'[k].at = idx /\ invoked'[k].stage = "OptionScan"
           /\ \E k \in (Len(invoked) + 1)..Len(invoked') :
                  opts'[invoked'[k].uid].vals # << >>
    /\ pc \notin {"PreCheck", "OptionScan"} =>
           \A u \in Uids : IsOptUid(u) => opts'[u] = opts[u]

\* C11: under the Forward policy the handlers of a matched token run in
\* the step that matches it, so every option handler has run and every
\* option value is stored before any Cmd, Pos or Main handler runs, and
\* no option handler runs before the handlers of the tokens ahead of it.
C11_Forward == [] C11_Inv /\ [][C11_Step]_vars

\* A finished parse in which an option handler, then the Cmd handler, then
\* a Pos handler ran.
C11_Witness ==
    /\ pc = "Done"
    /\ \E i, j, k \in 1..Len(invoked) :
           /\ i < j /\ j < k
           /\ IsOptUid(invoked[i].uid) /\ opts[invoked[i].uid].vals # << >>
           /\ invoked[j].stage = "CmdScan"
           /\ invoked[k].stage = "PosScan"

\* The handler of uid has run.
HandlerRan(u) == \E k \in 1..Len(invoked) : invoked[k].uid = u

Deferred == { k \in 1..Len(invoked) : invoked[k].stage = "DelayInvoke" }

\* C13: under the Delay policy the handlers kept back run only after the
\* Cmd and Pos checks have passed, and they run in the order of the tokens
\* their matches came from, also across different options.
C13_DeferredTokenOrder ==
    /\ Deferred # {} => /\ "DelayInvoke" \in Range(stages)
                        /\ pc \notin {"OptionScan", "OptCheck", "CmdScan", "PosScan",
                                      "NonOptCheck"}
    /\ \A j, k \in Deferred : j < k => invoked[j].at <= invoked[k].at

\* parse has returned after parse_impl ended with an error.
ReturnedError == ret # << >> /\ err # NoError

\* After the error no stage is started and no process is run.
C14_Skip ==
    pc = "Failed" =>
        /\ pc' = "Failed"
        /\ UNCHANGED << stages, tried, procs, invoked, idx, pos >>

\* C14 (as claimed): whatever error ends the parse, the remaining stages
\* are skipped and the caller receives a result with status false that
\* carries the error and the partial Ctx; the Ctx is never dropped.
C14_CtxNeverDropped ==
    ReturnedError =>
        /\ pc = "Failed"
        /\ ret[1].ok /\ ~ret[1].status
        /\ ret[1].failure = err
        /\ ret[1].ctx = Some(Ctx)

\* C14 (amended): whatever error ends the parse, the remaining stages are
\* skipped; an error that is a failure reaches the caller in a result with
\* status false that carries the error and the partial Ctx, any other
\* error reaches the caller as Err and the Ctx is dropped.
C14_FailureKeepsCtx ==
    /\ [] (ReturnedError =>
              /\ ~ret[1].status
              /\ ret[1].failure = err
              /\ IF is_failure(err)
                 THEN ret[1].ok /\ ret[1].ctx = Some(Ctx)
                 ELSE ~ret[1].ok /\ ret[1].ctx = None)
    /\ [][C14_Skip]_vars

\* parse has returned a failure raised in OptionScan with a token matched
\* before it, so that the Ctx and the set are partial.
C14_Witness ==
    /\ ReturnedError /\ is_failure(err)
    /\ Last(stages) = "OptionScan"
    /\ \E u \in Uids : opts[u].setted
    /\ ret[1].ok /\ ret[1].ctx = Some(Ctx)

\* parse has returned the error of a handler, which is no failure.
C14_WitnessErr ==
    /\ ReturnedError /\ ~is_failure(err)
    /\ \E u \in Uids : opts[u].setted

\* The step that raises the error leaves every option that was set as it
\* is, and so does every step after it.
C15_Step ==
    /\ (pc # "Failed" /\ pc' = "Failed") =>
           \A u \in Uids : opts[u].setted => opts'[u] = opts[u]
    /\ pc = "Failed" => opts' = opts /\ noa' = noa

\* C15: when the parse ends with a fatal error, every option that was set
\* and every value that was stored before the error keeps the state it had
\* at the moment of the error: raising the error and returning it roll
\* nothing back.
C15_NoRollback == [][C15_Step]_vars

\* parse has returned an option-not-found error and an option matched
\* before the error still holds its value.
C15_Witness ==
    /\ ret # << >> /\ err.kind = "OptionNotFound"
    /\ \E u \in Uids : opts[u].setted /\ opts[u].vals # << >>

Checkpoints == {"PreCheck", "OptCheck", "CmdCheck", "PosCheck", "PostCheck"}

Verdict(stage, os) ==
    CASE stage = "PreCheck"  -> pre_check(os)
      [] stage = "OptCheck"  -> opt_check(os)
      [] stage = "CmdCheck"  -> cmd_check(os)
      [] stage = "PosCheck"  -> pos_check(os)
      [] stage = "PostCheck" -> post_check(os)

\* A step that runs a checkpoint changes neither the declared options nor
\* their state, and the checkpoint run again on the set it left gives the
\* verdict the step acted on.
C17_Step ==
    pc \in Checkpoints =>
        /\ reg' = reg /\ opts' = opts
        /\ Verdict(pc, opts') = (pc' # "Failed")

NextKept(uid) == KeptInvokeLoop(opts, uid, keeper[uid], 1, << >>)

\* C18: two parses from the same declared options, settings, handlers and
\* tokens run the same handlers in the same order and end with the same
\* values and NOA list. Every step of the parse but the walk of the value
\* keeper is a function of the state, so the two parses agree if and only
\* if, wherever the walk stands, whichever uid the keeper yields next the
\* parse continues with the same handler invocations and the same set.
C18_SameRun ==
    pc = "DelayInvoke" =>
        \A u, v \in KeeperKeys : NextKept(u) = NextKept(v)

\* The candidates the current style guesses for the current token.
TokenGuess ==
    OptGuess(styles[sidx], idx - 1, Len(args),
             IF idx < Len(args) THEN Some(args[idx + 1]) ELSE None,
             ParseArg(args[idx]))

\* The uids the Option Process of the current token and style matches.
OptMatchedBy(saved) == { saved[k].uid : k \in 1..Len(saved) }

\* The step is the Option Process of the current token, the process
\* matched u, and it ended undone.
OptUndoes(u) ==
    /\ pc = "OptionScan" /\ sidx \in 1..Len(styles)
    /\ TokenGuess # << >>
    /\ u \in OptMatchedBy(OptUidLoop(NewProc(TokenGuess), opts, 1, << >>).saved)
    /\ ~OptProcIsMat(ProcessOpt(NewProc(TokenGuess), opts).proc)

\* The NOA candidate of the stage the parse is in.
StageGuess ==
    CASE pc = "CmdScan"  -> NOAGuess("Cmd", noa, noa_cmd, Len(noa))
      [] pc = "PosScan"  -> NOAGuess("Pos", noa, noa_pos(pos), Len(noa))
      [] pc = "MainScan" -> NOAGuess("Main", noa, noa_main, Len(noa))

\* The step is a NOA Process that matched u and whose handler reported
\* false, so that the match was undone.
NoaUndoes(u) ==
    /\ pc \in {"CmdScan", "PosScan", "MainScan"}
    /\ NOAProcessProcess(StageGuess, u, opts).index # 0
    /\ ~Invoke(opts, u, NOAMatchArg(StageGuess)).ret

\* The step is reset().
IsReset == first = << >> /\ first' # << >>

\* An option that is set is still set after the step, unless the step is
\* the undo of a process that matched it, or reset().
C19_Step ==
    \A u \in Uids :
        (opts[u].setted /\ ~opts'[u].setted) =>
            OptUndoes(u) \/ NoaUndoes(u) \/ IsReset

\* C19: once an option is matched its setted flag stays true through the
\* rest of the parse and after it; it becomes false again only by the undo
\* of a process that matched it, or by a reset of the registry.
C19_SettedStays == [][C19_Step]_vars

\* parse has returned, and the option the first token matched is still
\* set after the tokens that followed it.
C19_Witness ==
    /\ ret # << >> /\ Len(args) >= 2
    /\ won[1] # ""
    /\ \E k \in 1..Len(invoked) : invoked[k].at = 1 /\ opts[invoked[k].uid].setted

\* The second token of a lenient parse has been undone: -a, matched by the
\* first token, is not set any more.
C19_WitnessUndo ==
    /\ ~strict /\ Len(args) >= 2
    /\ \E k \in 1..Len(invoked) : invoked[k].uid = 1
    /\ ~opts[1].setted /\ opts[1].vals # << >>

\* The processes of the tokens before the current one are over and were
\* not undone when they stored a value: such a value is the state its
\* option had before the process of any later token ran.
StoredBefore(u) ==
    \E k \in 1..Len(invoked) :
        /\ invoked[k].uid = u /\ invoked[k].stage = "OptionScan"
        /\ won[invoked[k].at] # ""
        /\ opts[u].vals # << >>

\* C20: the undo of a process returns every option the process matched to
\* the setted flag and the values it had before the process ran, so an
\* option that an earlier token set and gave a value is still set, whatever
\* later process matched it again and was undone.
C20_UndoRestores ==
    \A u \in Uids : (IsOptUid(u) /\ StoredBefore(u)) => opts[u].setted

-----------------------------------------------------------------------------
(* C21: one option per candidate of an Option Process *)

\* Two different options answer to one name: same prefix and name, or the
\* prefix and name of one is an alias of the other.
ShareName(u, v) ==
    /\ u # v
    /\ \/ reg[u].prefix = reg[v].prefix /\ reg[u].name = reg[v].name
       \/ IsSome(reg[u].prefix) /\ << Get(reg[u].prefix), reg[u].name >> \in reg[v].alias
       \/ IsSome(reg[v].prefix) /\ << Get(reg[v].prefix), reg[v].name >> \in reg[u].alias
       \/ reg[u].alias \cap reg[v].alias # {}

\* The handlers the option process of token i has run.
RanFor(i) ==
    { invoked[k].uid : k \in { j \in 1..Len(invoked) :
                                 invoked[j].stage = "OptionScan" /\ invoked[j].at = i } }

\* No candidate index is saved for two uids.
OneOptionEach(saved) ==
    \A j \in 1..Len(saved) : \A k \in 1..Len(saved) :
        j # k => saved[j].index # saved[k].index /\ saved[j].uid # saved[k].uid

\* C21 as stated: two options that share a name or alias never both have
\* their handler run (and so are never both set) by one token.
C21_OneOptionPerToken ==
    \A i \in 1..Len(args) : \A u \in RanFor(i) : \A v \in RanFor(i) : ~ShareName(u, v)

\* C21 (amended): in every style iteration each candidate of the guess is
\* bound to at most one option and each option to at most one candidate,
\* the iteration runs at most one handler per candidate, and a token with
\* a single candidate runs the handler of at most one of two options that
\* share a name or alias.
C21_Step ==
    (pc = "OptionScan" /\ sidx \in 1..Len(styles) /\ tried' # tried) =>
        /\ OneOptionEach(OptUidLoop(NewProc(StyleGuess), opts, 1, << >>).saved)
        /\ Len(invoked') - Len(invoked) <= Len(StyleGuess)
        /\ Len(StyleGuess) = 1 =>
              \A j \in (Len(invoked) + 1)..Len(invoked') :
              \A k \in (Len(invoked) + 1)..Len(invoked') :
                  ~ShareName(invoked'[j].uid, invoked'[k].uid)

C21_OneOptionPerCandidate == [][C21_Step]_vars

\* The token -v alone: the first of the two options that answer to -v is
\* set, the second is not.
C21_Witness ==
    /\ reg = RegTwin /\ args = << <<"-", "v">> >> /\ pc = "Done"
    /\ opts[1].setted /\ ~opts[2].setted
    /\ RanFor(1) = {1}

-----------------------------------------------------------------------------
(* C22: the options a NOA Process binds to one NOA position *)

NoaStages == {"CmdScan", "PosScan", "MainScan"}

\* The options that match the NOA candidate.
NoaMatching(mat) ==
    { u \in Uids : /\ reg[u].styles \cap {"Cmd", "Main", "Pos"} # {}
                   /\ NOAMatchProcess(mat, u, opts).matched }

\* C22 as stated: for one NOA position of one stage the handler of at most
\* one option has run.
C22_OnePerPosition ==
    \A j \in 1..Len(invoked) : \A k \in 1..Len(invoked) :
        ( /\ invoked[j].stage \in NoaStages
          /\ invoked[j].stage = invoked[k].stage
          /\ invoked[j].at = invoked[k].at ) => invoked[j].uid = invoked[k].uid

\* C22 (amended): a NOA process that ends without an error has run, in
\* registry order, the handler of every option that matches the position,
\* and every one of them whose handler stored a value is set.
C22_Step ==
    (pc \in NoaStages /\ Len(procs') = Len(procs) + 1 /\ pc' # "Failed") =>
        LET p == Last(procs')
            new == [k \in 1..(Len(invoked') - Len(invoked)) |->
                        invoked'[Len(invoked) + k].uid]
            M == NoaMatching(NOAGuess(p.style, noa, p.pos, Len(noa)))
        IN  /\ { new[k] : k \in 1..Len(new) } = M
            /\ \A j \in 1..Len(new) : \A k \in 1..Len(new) : j < k => new[j] < new[k]
            /\ \A u \in M : reg[u].handler = "default" => opts'[u].setted

C22_EveryMatching == [][C22_Step]_vars

\* Two tokens 5 in the NOA list: both positionals that cover position 1
\* have run their handler for it and are set.
C22_Witness ==
    /\ reg = RegTwin /\ pc = "Done"
    /\ opts[3].setted /\ opts[4].setted
    /\ \E j \in 1..Len(invoked) : \E k \in 1..Len(invoked) :
          /\ invoked[j].stage = "PosScan" /\ invoked[k].stage = "PosScan"
          /\ invoked[j].at = 1 /\ invoked[k].at = 1
          /\ invoked[j].uid = 3 /\ invoked[k].uid = 4

-----------------------------------------------------------------------------
(* C23: a matching candidate whose raw value does not convert *)

\* The candidates of `style` for token i.
GuessAt(i, style) ==
    OptGuess(style, i - 1, Len(args),
             IF i < Len(args) THEN Some(args[i + 1]) ELSE None, ParseArg(args[i]))

\* The candidate matches the option by style, name and prefix, or alias.
Structural(m, u) ==
    /\ MatStyle(reg[u], m.style)
    /\ \/ MatName(reg[u], Some(m.name)) /\ MatPrefix(reg[u], Some(m.prefix))
       \/ MatAlias(reg[u], m.prefix, m.name)

\* The one candidate of `style` for token i matches an option of the set,
\* and the raw value converts for none of the options it matches.
ConvFails(i, style) ==
    /\ Len(GuessAt(i, style)) = 1
    /\ \E u \in Uids : Structural(GuessAt(i, style)[1], u)
    /\ \A u \in Uids : Structural(GuessAt(i, style)[1], u) =>
           ~CheckVal(reg[u], GuessAt(i, style)[1].arg, GuessAt(i, style)[1].disable)

\* The failing candidate took the following token for its value.
ConvFailsConsumed(i, style) ==
    ConvFails(i, style) /\ GuessAt(i, style)[1].consume

\* C23 as stated, second half: after a candidate that consumed the
\* following token failed conversion the parse does not end successfully.
C23_ConsumedFatal ==
    \A i \in 1..Len(args) : \A k \in 1..Len(tried[i]) :
        ConvFailsConsumed(i, tried[i][k]) => pc # "Done"

\* C23 (amended): a candidate whose raw value fails conversion counts as
\* no-match whether or not it took the following token: its style does
\* not win the token, the following token is not skipped on its account,
\* the parse fails at the token only through the strict check after every
\* style was tried, and an unmatched token that is passed is in the NOA
\* list.
C23_Recoverable ==
    \A i \in 1..Len(args) : \A k \in 1..Len(tried[i]) :
        ConvFails(i, tried[i][k]) =>
            /\ won[i] # tried[i][k]
            /\ won[i] = "" => i \notin consumed /\ (i + 1) \notin skipped
            /\ (pc = "Failed" /\ idx = i) =>
                   /\ err.kind = "OptionNotFound" /\ strict
                   /\ tried[i] = styles
            /\ (won[i] = "" /\ (idx > i \/ pc \notin {"OptionScan", "Failed"})) =>
                   /\ tried[i] = styles
                   /\ \E n \in 1..Len(noaFrom) : noaFrom[n] = i

\* --count x, lenient: the value x does not convert, the parse ends
\* successfully with both tokens in the NOA list and nothing stored.
C23_Witness ==
    /\ reg = RegVal /\ args = << P2 \o sCount, <<"x">> >> /\ ~strict
    /\ pc = "Done" /\ noa = args
    /\ ~opts[1].setted /\ opts[1].vals = << >>
    /\ ConvFailsConsumed(1, "Argument")

-----------------------------------------------------------------------------
(* C24: an option that takes an argument given as the last token *)

\* Token i names, without an =value segment, an option that only takes
\* its value from an argument.
NeedsArg(i) ==
    /\ IsSome(ParseArg(args[i]).name) /\ SetCheck(ParseArg(args[i]))
    /\ ~IsSome(ParseArg(args[i]).value)
    /\ \E u \in Uids :
          /\ reg[u].styles = {"Argument"}
          /\ \/ /\ MatName(reg[u], ParseArg(args[i]).name)
                /\ MatPrefix(reg[u], ParseArg(args[i]).prefix)
             \/ MatAlias(reg[u], Get(ParseArg(args[i]).prefix), Get(ParseArg(args[i]).name))

\* C24: when the last token is an option that needs a following argument,
\* the parse ends with the missing-argument error.
C24_MissingArgument ==
    (Len(args) > 0 /\ NeedsArg(Len(args)) /\ pc \in {"Done", "Failed"}
                   /\ tried[Len(args)] # << >>) =>
        pc = "Failed" /\ err.kind = "MissingArgument"

-----------------------------------------------------------------------------
(* C25: invoke for a uid without a registered handler *)

\* C25: an invoke for a uid that has no callback ends in the panic of
\* unreachable!(): it returns neither a value nor an error, it stores
\* nothing, no call follows it and no parse result comes of it.
C25_NoHandlerAborts ==
    \A k \in 1..Len(calls) :
        (calls[k].via = "invoke" /\ calls[k].had = << >>) =>
            /\ calls[k].out = "panic"
            /\ k = Len(calls)
            /\ calls[k].post = calls[k].pre
            /\ ret = << >>

\* A handler is registered for --foo; invoke is called for --bar, which
\* has none.
C25_Witness ==
    /\ callbacks[1] # << >> /\ callbacks[2] = << >>
    /\ calls # << >>
    /\ Last(calls).via = "invoke" /\ Last(calls).uid = 2
    /\ Last(calls).out = "panic"

-----------------------------------------------------------------------------
(* C26: a handler registered with fallback(handler) *)

\* The entry of the uid registered its callback through fallback(handler):
\* fallback was called before anything else had registered.
ByFallback(uid) ==
    \E n \in 1..Len(chains[uid]) :
        /\ chains[uid][n] = "fallback"
        /\ \A m \in 1..(n - 1) : chains[uid][m] = "on"

\* The values of the option after value v was stored by its Action.
ByAction(uid, pre, v) ==
    IF reg[uid].action = "Set" THEN << v >> ELSE Append(pre.vals, v)

\* C26: when a handler registered with fallback(handler) returns None the
\* default handler runs, stores the parsed raw value by the option's
\* Action and reports true; when it returns Some the default handler does
\* not run.
C26_FallbackRunsDefault ==
    \A k \in 1..Len(calls) :
        (calls[k].via = "invoke" /\ calls[k].had # << >> /\ ByFallback(calls[k].uid)) =>
            IF calls[k].val = None
            THEN /\ calls[k].default
                 /\ calls[k].out = "true"
                 /\ calls[k].post.vals =
                        ByAction(calls[k].uid, calls[k].pre,
                                 RawParse(reg[calls[k].uid].ty, calls[k].raw))
                 /\ calls[k].post.raws = Append(calls[k].pre.raws, Get(calls[k].raw))
            ELSE ~calls[k].default

\* --bar (App) registered with fallback: its handler returned None, the
\* default handler stored 6; then it returned Some(7) and the default
\* handler did not run.
C26_Witness ==
    /\ ByFallback(2) /\ Len(calls) = 2
    /\ calls[1].uid = 2 /\ calls[1].via = "invoke" /\ calls[1].val = None
    /\ calls[1].default /\ calls[1].post.vals = << 6 >>
    /\ calls[2].uid = 2 /\ calls[2].via = "invoke" /\ calls[2].val = Some(HandlerValue)
    /\ ~calls[2].default /\ calls[2].post.vals = << 6, 7 >>

-----------------------------------------------------------------------------
(* C27: the store given with then(store) *)

\* then(store) was called on the entry of the uid after on or fallback.
ThenAfterHandler(uid) ==
    \E n \in 2..Len(chains[uid]) :
        /\ chains[uid][n] = "then"
        /\ \A m \in 1..(n - 1) : chains[uid][m] \in {"on", "fallback"}

\* C27: the value a handler returns is saved by the store given with
\* then(store), whether the handler was given with on or with fallback,
\* and an entry whose first call is then(store) registers nothing.
C27_ThenStoreUsed ==
    /\ \A k \in 1..Len(calls) :
          ( /\ calls[k].via = "invoke" /\ calls[k].had # << >>
            /\ calls[k].val # None
            /\ ThenAfterHandler(calls[k].uid) ) => calls[k].store \in Stores
    /\ \A u \in Uids :
          (entry = << >> /\ chains[u] # << >> /\ chains[u][1] = "then") =>
              callbacks[u] = << >>

-----------------------------------------------------------------------------
(* C28: a handler that returns None *)

\* The invocations the step adds to the log.
NewInvoked == (Len(invoked) + 1)..Len(invoked')

\* C28: in every step of a parse, an option or NOA whose handler ran and
\* returned None has no value stored by the step, is not marked as set
\* after it and does not make its token count as matched; in a step that
\* does not end the parse with an error an option gets a value or becomes
\* set only if its handler ran in that step and did not return None.
C28_Step ==
    (pc \in {"OptionScan"} \cup NoaStages) =>
        /\ \A k \in NewInvoked :
              reg[invoked'[k].uid].handler = "none" =>
                  /\ opts'[invoked'[k].uid].vals = opts[invoked'[k].uid].vals
                  /\ opts'[invoked'[k].uid].raws = opts[invoked'[k].uid].raws
                  /\ ~opts'[invoked'[k].uid].setted
                  /\ pc = "OptionScan" => won' = won /\ matched' = matched
        /\ \A u \in Uids :
              ( /\ pc' # "Failed"
                /\ opts'[u].vals # opts[u].vals \/ (opts'[u].setted /\ ~opts[u].setted) ) =>
                  \E k \in NewInvoked :
                      invoked'[k].uid = u /\ reg[u].handler = "default"

C28_NoneStoresNothing == [][C28_Step]_vars

\* --ab v, lenient: the handler of --ab ran for the value v and returned
\* None; --ab holds no value and is not set.
C28_Witness ==
    /\ reg = RegNone /\ pc = "Done"
    /\ \E k \in 1..Len(invoked) : invoked[k].uid = 1 /\ invoked[k].stage = "OptionScan"
    /\ ~opts[1].setted /\ opts[1].vals = << >> /\ opts[1].raws = << >>

\* 5 5: the handler of the positional r ran for position 1 and returned
\* None; r holds no value and is not set, p and q are.
C28_WitnessNoa ==
    /\ reg = RegTwin /\ pc = "Done"
    /\ \E k \in 1..Len(invoked) : invoked[k].uid = 5 /\ invoked[k].stage = "PosScan"
    /\ ~opts[5].setted /\ opts[5].vals = << >>
    /\ opts[3].setted /\ opts[4].setted

-----------------------------------------------------------------------------
(* C29, C30: the candidates of the five styles *)

\* The token as written: it has an =value segment, it is a disable form,
\* the characters of its name.
HasValueSegment(tok) == \E i \in 1..Len(tok) : tok[i] = "="
DisableForm(tok) ==
    \E p \in 1..Len(Prefixes) :
        /\ Min({q \in 1..Len(Prefixes) : StartsWith(tok, Prefixes[q])}) = p
        /\ Len(tok) > Len(Prefixes[p])
        /\ tok[Len(Prefixes[p]) + 1] = "/"
TokPrefix(tok) == IF StartsWith(tok, P2) THEN P2 ELSE P1
TokName(tok) ==
    Drop(tok, Len(TokPrefix(tok)) + (IF DisableForm(tok) THEN 1 ELSE 0))

\* The classifier ran with the given style on the first token.
Classified(style) == cands # << >> /\ styles[1] = style

\* C29: for an option token, the EqualWithValue style yields its candidate
\* exactly when the token has an =value segment, the Argument style exactly
\* when it has none and a token follows, the Boolean style exactly when it
\* has none; a candidate has consume = true exactly when the Argument style
\* made it, and the raw value of the Boolean candidate is "true", or "false"
\* for a disable form.
C29_Candidates ==
    cands # << >> =>
        LET c   == cands[1]
            tok == args[1]
        IN  /\ Classified("EqualWithValue") =>
                /\ Len(c) <= 1
                /\ Len(c) = 1 <=> HasValueSegment(tok)
            /\ Classified("Argument") =>
                /\ Len(c) <= 1
                /\ Len(c) = 1 <=> (~HasValueSegment(tok) /\ Len(args) > 1)
                /\ Len(c) = 1 => c[1].arg = Some(args[2])
            /\ Classified("Boolean") =>
                /\ Len(c) <= 1
                /\ Len(c) = 1 <=> ~HasValueSegment(tok)
                /\ Len(c) = 1 =>
                      /\ c[1].style = "Boolean"
                      /\ c[1].arg = Some(IF DisableForm(tok) THEN BOOL_FALSE ELSE BOOL_TRUE)
            /\ \A k \in 1..Len(c) : c[k].consume <=> styles[1] = "Argument"

\* -/a followed by a token: the Boolean style made a candidate with the raw
\* value "false" that does not take the following token.
C29_Witness ==
    /\ Classified("Boolean") /\ args[1] = <<"-", "/", "a">> /\ Len(args) = 2
    /\ Len(cands[1]) = 1
    /\ cands[1][1].arg = Some(BOOL_FALSE) /\ ~cands[1][1].consume

\* --count followed by a token: the Argument style made the one candidate
\* that takes the following token.
C29_WitnessArgument ==
    /\ Classified("Argument") /\ args[1] = P2 \o sCount /\ Len(args) = 2
    /\ Len(cands[1]) = 1 /\ cands[1][1].consume

C30_WitnessEmbedded ==
    /\ Classified("EmbeddedValue") /\ args[1] = <<"-", "o", "4", "2">>
    /\ Len(cands[1]) = 1
    /\ cands[1][1].name = <<"o">> /\ cands[1][1].arg = Some(<<"4", "2">>)

\* -a: neither the Combined nor the EmbeddedValue style made a candidate.
C30_WitnessOne ==
    /\ cands = << << >> >> /\ args[1] = <<"-", "a">>
    /\ styles[1] \in {"CombinedOption", "EmbeddedValue"}

-----------------------------------------------------------------------------
(* C31: what an option holds after the parse, by its Action *)

\* The matches of option u: the invocations of its handler, in the order
\* they were made.
MatchesOf(u) == SelectSeq(invoked, LAMBDA e : e.uid = u)

\* The values an option with the given Action holds after the matches ms.
Held(u, ms) ==
    CASE reg[u].action = "App" ->
            [k \in 1..Len(ms) |-> ParseVal(reg[u], ms[k].arg)]
      [] reg[u].action = "Set" ->
            IF ms = << >> THEN << >> ELSE << ParseVal(reg[u], ms[Len(ms)].arg) >>
      [] reg[u].action = "Cnt" ->
            IF ms = << >> THEN << >> ELSE << Len(ms) >>
      [] OTHER -> << >>

C31_WitnessSet ==
    /\ reg = RegAct /\ pc = "Done"
    /\ args = << <<"-", "-", "l", "=", "1">>, <<"-", "v">>, <<"-", "-", "l", "=", "2">> >>
    /\ opts[2].vals = << 2 >> /\ opts[3].vals = << 1 >>

C31_WitnessCount ==
    /\ reg = RegAct /\ pc = "Done"
    /\ args = << <<"-", "v">>, <<"-", "v">> >>
    /\ opts[3].vals = << 2 >>

-----------------------------------------------------------------------------
(* C32: a sub-parser leaves the options of the parent's Set alone *)

\* A handler is waiting for its sub-parser.
Delegating == parent # << >> /\ parent[1].phase = "sub"

\* Option u of the parent's Set has in os the setted flag and the values
\* the waiting parse f had for it when the handler was called.
SameAsCalled(f, os, u) ==
    os[u].setted = f.opts[u].setted /\ os[u].vals = f.opts[u].vals

\* C32: while a sub-command handler has handed the remaining tokens to its
\* sub-parser, no step of the sub-parser's parse changes the Set of the
\* waiting parse, and when the sub-parse has returned, with a result or a
\* failure, every option of the parent's Set has the setted flag and the
\* values it had when the handler was called; the call itself changes no
\* value and only the setted flag of the matched sub-command.
C32_Step ==
    /\ Delegating =>
          /\ parent' # << >>
          /\ parent'[1].reg = parent[1].reg /\ parent'[1].opts = parent[1].opts
          /\ parent'[1].phase = "back" =>
                /\ reg' = parent[1].reg
                /\ \A u \in 1..Len(reg') : SameAsCalled(parent[1], opts', u)
    /\ (parent = << >> /\ parent' # << >>) =>
          /\ parent'[1].reg = reg
          /\ \A u \in Uids :
                /\ parent'[1].opts[u].vals = opts[u].vals
                /\ u # parent'[1].uid => parent'[1].opts[u].setted = opts[u].setted

C32_ParentUntouched == [][C32_Step]_vars

\* -x set -y, lenient: the sub-parse succeeded and set -y of its own Set;
\* -x of the parent is set as before, the sub-command holds no value yet.
C32_Witness ==
    /\ parent # << >> /\ parent[1].phase = "back"
    /\ args = << <<"-", "x">>, sSet, <<"-", "y">> >>
    /\ parent[1].res[1].status
    /\ parent[1].subopts[1].setted
    /\ opts[1].setted /\ opts[2].vals = << >>

\* -x set 5: the sub-parse failed at its OptCheck; -x is still set.
C32_WitnessFailed ==
    /\ parent # << >> /\ parent[1].phase = "back"
    /\ args = << <<"-", "x">>, sSet, <<"5">> >>
    /\ ~parent[1].res[1].status
    /\ opts[1].setted

-----------------------------------------------------------------------------
(* C33: a parse terminates *)

\* The parse has reached a terminal state and returned.
Terminated == pc \in {"Done", "Failed"} /\ ret # << >>

\* The outer iteration only moves forward: the token index never goes
\* back, a step that leaves it where it is goes on in the style loop of
\* the same iteration or fails the parse, no style is asked twice about a
\* token and no token enters the NOA list twice.
C33_Step ==
    /\ idx' >= idx
    /\ (pc = "OptionScan" /\ pc' = "OptionScan" /\ idx' = idx) => sidx' > sidx
    /\ \A i \in 1..Len(args) : \A j, k \in 1..Len(tried'[i]) :
          j # k => tried'[i][j] # tried'[i][k]
    /\ \A j, k \in 1..Len(noaFrom') : j < k => noaFrom'[j] < noaFrom'[k]

\* C33: every parse terminates, in the success state or in a failure
\* state, and its outer iteration takes each token at most once.
C33_Terminates == <>Terminated /\ [][C33_Step]_vars

\* --count 5 then -abc, lenient: the parse has returned with success
\* after an iteration that skipped the consumed token.
C33_Witness ==
    /\ Terminated /\ pc = "Done" /\ reg = RegOpts
    /\ Len(args) = 2 /\ 2 \in skipped /\ won[1] = "Argument"

\* -abd, strict: the parse has returned from the failure state.
C33_WitnessFailed ==
    /\ Terminated /\ pc = "Failed" /\ err.kind = "OptionNotFound"
    /\ args = << <<"-", "a", "b", "d">> >>

-----------------------------------------------------------------------------
(* C34: the classes of the tokens at the end of OptionScan *)

\* OptionScan has ended and the parse went on to OptCheck.
ScanEnded == \E k \in 1..Len(stages) : stages[k] = "OptCheck"

\* Token i was matched as an option; it was taken as the argument of the
\* matched option right before it; it was appended to the NOA list.
AsOption(i) == won[i] # ""
AsArgument(i) == i > 1 /\ i \in skipped /\ (i - 1) \in consumed /\ won[i - 1] # ""
AsNoa(i) == \E n \in 1..Len(noaFrom) : noaFrom[n] = i

\* The NOA list is a subsequence of the input.
NoaSubsequence ==
    /\ Len(noa) = Len(noaFrom)
    /\ \A n \in 1..Len(noaFrom) :
          noaFrom[n] \in 1..Len(args) /\ noa[n] = args[noaFrom[n]]
    /\ \A j, k \in 1..Len(noaFrom) : j < k => noaFrom[j] < noaFrom[k]

\* C34: at the end of OptionScan every token is in exactly one of the
\* three classes (matched as an option, the argument of the matched option
\* right before it, appended to the NOA list), and the NOA list is a
\* subsequence of the input.
C34_TokenClasses ==
    ScanEnded =>
        /\ \A i \in 1..Len(args) :
              /\ AsOption(i) \/ AsArgument(i) \/ AsNoa(i)
              /\ ~(AsOption(i) /\ AsArgument(i))
              /\ ~(AsOption(i) /\ AsNoa(i))
              /\ ~(AsArgument(i) /\ AsNoa(i))
        /\ NoaSubsequence

-----------------------------------------------------------------------------
(* C35: a Combined token with a letter that names no option *)

\* Candidate m can be bound to option u.
Binds(m, u) == Structural(m, u) /\ CheckVal(reg[u], m.arg, m.disable)

\* Token i parses as an option: it has a name and a recognized prefix.
OptionToken(i) == IsSome(ParseArg(args[i]).name) /\ SetCheck(ParseArg(args[i]))

\* The letters of token i as the Combined style splits them.
Letters(i) == IF OptionToken(i) THEN GuessAt(i, "CombinedOption") ELSE << >>

\* The options the letters of token i name.
LetterOpts(i) ==
    { u \in Uids : \E k \in 1..Len(Letters(i)) : Binds(Letters(i)[k], u) }

\* Token i is split by the Combined style, one of its letters names no
\* declared option and another one does.
PartlyCombined(i) ==
    /\ \E k \in 1..Len(Letters(i)) : \A u \in Uids : ~Binds(Letters(i)[k], u)
    /\ LetterOpts(i) # {}

\* No enabled style has a candidate list for token i of which every
\* candidate can be bound: the token stays unmatched.
StaysUnmatched(i) ==
    \A s \in 1..Len(styles) :
        \/ GuessAt(i, styles[s]) = << >>
        \/ \E k \in 1..Len(GuessAt(i, styles[s])) :
              \A u \in Uids : ~Binds(GuessAt(i, styles[s])[k], u)

\* C35: in a lenient parse, no step taken for a Combined token that has a
\* letter without a declared option, and that no style matches, sets an
\* option named by its other letters or stores a value in it or invokes
\* its handler, and the token ends in the NOA list.
C35_Step ==
    (pc = "OptionScan" /\ ~strict /\ idx <= Len(args)
       /\ OptionToken(idx) /\ PartlyCombined(idx) /\ StaysUnmatched(idx)) =>
        /\ \A u \in LetterOpts(idx) :
              /\ opts'[u].setted => opts[u].setted
              /\ opts'[u].vals = opts[u].vals
              /\ opts'[u].raws = opts[u].raws
        /\ invoked' = invoked
        /\ won'[idx] = ""
        /\ idx' # idx => (noaFrom' = Append(noaFrom, idx) /\ idx' = idx + 1)

C35_NoPartialEffect == [][C35_Step]_vars

\* -abd alone among the option tokens, lenient with the Combined style:
\* the token was tried as a Combined token and is in the NOA list at the
\* end of the parse, -a and -b are not set and hold nothing.
C35_Witness ==
    /\ reg = RegOpts /\ ~strict /\ pc = "Done"
    /\ Len(args) >= 1 /\ args[1] = tABD
    /\ PartlyCombined(1) /\ StaysUnmatched(1)
    /\ \E k \in 1..Len(tried[1]) : tried[1][k] = "CombinedOption"
    /\ 1 \in Range(noaFrom)
    /\ ~opts[1].setted /\ ~opts[2].setted
    /\ opts[1].vals = << >> /\ opts[2].vals = << >>

-----------------------------------------------------------------------------
(* C36: the NOA stages of a parse whose NOA list is empty *)

\* How often the parse entered `stage`.
Entered(stage) == Cardinality({ i \in 1..Len(stages) : stages[i] = stage })

\* The NOA processes of `style` the parse ran.
RanNoa(style) == { k \in 1..Len(procs) : procs[k].style = style }

\* The option scan is over and left no NOA.
NoaEmpty == Entered("CmdScan") > 0 /\ Len(noa) = 0

CheckStages == {"CmdCheck", "PosCheck", "MainScan", "PostCheck"}

\* A force-required Cmd is declared.
CmdRequired == \E u \in Uids : MatStyle(reg[u], "Cmd") /\ reg[u].force

\* C36: when the NOA list is empty no Cmd and no Pos process is run and no
\* Cmd or Pos handler is invoked; CmdCheck, PosCheck, MainScan and
\* PostCheck are each entered at most once, in this order, the Main
\* process is run once in MainScan, and a parse that ends successfully
\* went through each of them exactly once; when a force-required Cmd is
\* declared the parse fails at CmdCheck with RequiredCmdUnset.
C36_EmptyNoa ==
    NoaEmpty =>
        /\ RanNoa("Cmd") = {} /\ RanNoa("Pos") = {}
        /\ \A k \in 1..Len(invoked) : invoked[k].stage \notin {"CmdScan", "PosScan"}
        /\ \A s \in CheckStages : Entered(s) <= 1
        /\ Entered("PostCheck") <= Entered("MainScan")
        /\ Entered("MainScan") <= Entered("PosCheck")
        /\ Entered("PosCheck") <= Entered("CmdCheck")
        /\ Cardinality(RanNoa("Main")) =
               (IF Entered("MainScan") = 1 /\ pc # "MainScan" THEN 1 ELSE 0)
        /\ pc = "Done" => \A s \in CheckStages : Entered(s) = 1
        /\ (CmdRequired /\ pc \in {"Done", "Failed"}) =>
               /\ pc = "Failed" /\ err.kind = "RequiredCmdUnset"
               /\ stages[Len(stages)] = "CmdCheck"
               /\ Entered("CmdCheck") = 1

\* A parse of no NOA with a required Cmd failed at CmdCheck.
C36_Witness ==
    /\ reg = RegForce /\ NoaEmpty
    /\ pc = "Failed" /\ err.kind = "RequiredCmdUnset"
    /\ stages[Len(stages)] = "CmdCheck" /\ procs = << >>

\* A parse of no NOA ended successfully after the Main process.
C36_WitnessDone ==
    /\ NoaEmpty /\ pc = "Done"
    /\ \A s \in CheckStages : Entered(s) = 1
    /\ Cardinality(RanNoa("Main")) = 1 /\ Len(procs) = 1

-----------------------------------------------------------------------------
(* C37: what a HandlerEntry registers *)

\* The step is a call of fallback or then on the entry.
RegisteringCall ==
    /\ entry # << >> /\ entry' # << >>
    /\ chains'[entry[1].uid] # chains[entry[1].uid]
    /\ Last(chains'[entry[1].uid]) \in {"fallback", "then"}

\* The step is submit or the drop of the entry.
Dropped == entry # << >> /\ entry' = << >>

\* C37: the callbacks change only in the first fallback, then, submit or
\* drop of an entry, and only at the uid of the entry, where the new
\* callback takes the place of the one registered before; that call
\* leaves the entry registered, and no call on a registered entry changes
\* the callbacks or the register flag; submit or drop of an entry that
\* was given on(handler) and has not registered yet registers the
\* handler wrapped with the option's Action as its store.
C37_Step ==
    /\ callbacks' # callbacks =>
          /\ entry # << >> /\ ~entry[1].register
          /\ RegisteringCall \/ Dropped
          /\ \A u \in Uids : u # entry[1].uid => callbacks'[u] = callbacks[u]
          /\ Len(callbacks'[entry[1].uid]) = 1
    /\ (RegisteringCall /\ ~entry[1].register) =>
          /\ entry'[1].register
          /\ Last(chains'[entry[1].uid]) = "fallback" =>
                callbacks'[entry[1].uid] = << Wrapped("fallback", "user", "action") >>
    /\ (entry # << >> /\ entry[1].register) =>
          /\ callbacks' = callbacks
          /\ entry' # << >> => (entry'[1].register /\ entry'[1].uid = entry[1].uid)
    /\ (Dropped /\ ~entry[1].register /\ IsSome(entry[1].handler)) =>
          callbacks'[entry[1].uid] =
              << Wrapped("action", Get(entry[1].handler), "action") >>
    /\ (Dropped /\ ~entry[1].register /\ ~IsSome(entry[1].handler)) =>
          callbacks' = callbacks

C37_OneRegistration == [][C37_Step]_vars

\* The `set` command was declared with its handler; an entry for it given
\* on(handler) and dropped put the user's handler with the Action as its
\* store in the place of the declared one.
C37_Witness ==
    /\ reg = RegApp /\ reg[2].handler = "sub"
    /\ entry = << >> /\ chains[2] = << "on" >>
    /\ callbacks[2] = << Wrapped("action", "user", "action") >>

\* An entry that registered with fallback was then given then(store): the
\* callback is still the one fallback registered.
C37_WitnessLater ==
    /\ entry # << >> /\ entry[1].register /\ entry[1].uid = 1
    /\ chains[1] = << "fallback", "then" >>
    /\ callbacks[1] = << Wrapped("fallback", "user", "action") >>
    /\ callbacks[2] # CallbacksOf(reg)[2]

-----------------------------------------------------------------------------
(* C38: parse_policy and the parser's invoker and services *)

\* The step is a return of parse_policy.
PolicyReturned == Len(cote'[1].rets) > Len(cote[1].rets)

\* C38: parse_policy takes the invoker and the services out of the parser
\* when it starts the policy's parse; when it returns, with a result or
\* with an error, both are present in the parser, and after a parse they
\* are the ones it took out; outside a call both are present once a call
\* has returned.
C38_Step ==
    /\ (cote[1].at = "idle" /\ cote'[1].at = "parse") =>
          /\ cote'[1].inv = None /\ cote'[1].ser = None
          /\ cote'[1].local = << [inv |-> Get(cote[1].inv), ser |-> Get(cote[1].ser)] >>
    /\ PolicyReturned =>
          /\ cote'[1].at = "idle"
          /\ IsSome(cote'[1].inv) /\ IsSome(cote'[1].ser)
          /\ cote[1].at = "parse" =>
                /\ cote'[1].inv = Some(cote[1].local[1].inv)
                /\ cote'[1].ser = Some(cote[1].local[1].ser)
    /\ (cote'[1].at = "idle" /\ cote'[1].rets # << >>) =>
          IsSome(cote'[1].inv) /\ IsSome(cote'[1].ser)

C38_PutBack == [][C38_Step]_vars

\* A parse that returned an error: the invoker and the services are the
\* ones the parser had before.
C38_Witness ==
    /\ cote[1].at = "idle" /\ cote[1].rets = << "Ok", "Err" >>
    /\ cote[1].inv = Some("first") /\ cote[1].ser = Some("first")

\* During the policy's parse the parser holds neither.
C38_WitnessTaken ==
    /\ cote[1].at = "parse" /\ cote[1].inv = None /\ cote[1].ser = None
    /\ cote[1].local = << [inv |-> "later", ser |-> "first"] >>

=============================================================================
